---- MODULE Spec2Model ----
(***************************************************************************)
(* Request orchestration of ai-studio/services/geminiService.ts:           *)
(* the serial request queue (processQueue / enqueue), the retry policy     *)
(* (withRetry) with its rate-limit classification, the response            *)
(* interpretation of the six exported operations, and the request parts    *)
(* they send.                                                              *)
(***************************************************************************)
EXTENDS Integers, Sequences, FiniteSets, TLC

\* ------------------------------------------------------------------------
\* Bounds of the model and constants of the program
\* ------------------------------------------------------------------------

\* number of enqueue calls explored
NumJobs == 3
\* longest error message explored (tokens)
MaxBody == 5
\* most content blocks in a candidate of a response
MaxParts == 3
\* most arguments of a call that differ from their first values
MaxChanges == 3
\* number of operation calls explored around the initialization
NumCalls == 4
\* number of operations the application starts
MaxOps == 4

\* withRetry defaults (every caller uses them)
MaxRetries == 5
InitialDelay == 3000
BackoffFactor == 2
\* Math.random() * 1000
JitterRange == 1000
\* setTimeout(processQueue, 1000)
Cooldown == 1000

\* jitter values explored, all in [0, JitterRange)
Jitters == {0, JitterRange - 1}
\* stretches of time shorter than the cool-down, so that the timers of two
\* settlements can be pending with different remaining times
PartSteps == {400}

Jobs == 1..NumJobs

Min(a, b) == IF a <= b THEN a ELSE b

RECURSIVE Pow(_, _)
Pow(b, n) == IF n = 0 THEN 1 ELSE b * Pow(b, n - 1)

\* ------------------------------------------------------------------------
\* Error messages.  A message is a sequence of tokens; each token stands
\* for a piece of text.  "error:{" is the text  "error":{  and so ends with
\* an opening brace, "code:429" is the member  "code":429, "status:RE" is
\* the member  "status":"RESOURCE_EXHAUSTED", "NL" is a line break.
\* ------------------------------------------------------------------------

TextToks == {"x", "429", "RESOURCE_EXHAUSTED", "rate limit"}
BodyToks == {"{", "}", "error:{", "code:429", "status:RE", "NL"}

\* a thrown value: an Error with a message, or a value that is no Error
ErrorOf(msg) == [isError |-> TRUE, message |-> msg]
NonError == [isError |-> FALSE, message |-> <<>>]

\* String.prototype.includes, on the text the tokens stand for
TokIncludes(tok, needle) ==
    CASE needle = "429" -> tok \in {"429", "code:429"}
      [] needle = "RESOURCE_EXHAUSTED" -> tok \in {"RESOURCE_EXHAUSTED", "status:RE"}
      [] needle = "rate limit" -> tok = "rate limit"
      [] OTHER -> FALSE

Includes(msg, needle) == \E i \in 1..Len(msg) : TokIncludes(msg[i], needle)

\* e.message.match(/{.*}/): the leftmost opening brace that has a closing
\* brace later on the same line, up to the last closing brace of that line
\* ('.' does not match a line break).  <<>> stands for null.
OpensBrace(tok) == tok \in {"{", "error:{"}

SameLine(msg, i, j) == \A k \in i..j : msg[k] # "NL"

JsonMatch(msg) ==
    LET starts == {i \in 1..Len(msg) :
                      /\ OpensBrace(msg[i])
                      /\ \E j \in (i+1)..Len(msg) : msg[j] = "}" /\ SameLine(msg, i, j)}
    IN IF starts = {} THEN <<>>
       ELSE LET i == CHOOSE s \in starts : \A t \in starts : s <= t
                ends == {j \in (i+1)..Len(msg) : msg[j] = "}" /\ SameLine(msg, i, j)}
                j == CHOOSE s \in ends : \A t \in ends : s >= t
            IN <<"{">> \o SubSeq(msg, i + 1, j)

\* JSON.parse of the matched text.  ok: the text is one well-formed object;
\* rl: its member "error" is an object whose own member code is 429 or whose
\* own member status is RESOURCE_EXHAUSTED.  A later "error" member replaces
\* an earlier one.
RECURSIVE ParseFrom(_, _, _, _)
ParseFrom(toks, i, depth, rl) ==
    IF i > Len(toks) THEN [ok |-> depth = 0, rl |-> rl]
    ELSE LET t == toks[i] IN
         CASE t = "{" ->
                IF i = 1 THEN ParseFrom(toks, i + 1, 1, FALSE)
                ELSE [ok |-> FALSE, rl |-> FALSE]
           [] t = "error:{" ->
                IF depth >= 1
                THEN ParseFrom(toks, i + 1, depth + 1, IF depth = 1 THEN FALSE ELSE rl)
                ELSE [ok |-> FALSE, rl |-> FALSE]
           [] t \in {"code:429", "status:RE"} ->
                IF depth >= 1
                THEN ParseFrom(toks, i + 1, depth, IF depth = 2 THEN TRUE ELSE rl)
                ELSE [ok |-> FALSE, rl |-> FALSE]
           [] t = "}" ->
                IF depth >= 1 /\ (depth > 1 \/ i = Len(toks))
                THEN ParseFrom(toks, i + 1, depth - 1, rl)
                ELSE [ok |-> FALSE, rl |-> FALSE]
           [] OTHER -> [ok |-> FALSE, rl |-> FALSE]

JsonParse(toks) == ParseFrom(toks, 1, 0, FALSE)

\* the structured path: jsonMatch, JSON.parse, errorBody.error.code / status
StructuredRateLimit(msg) ==
    LET m == JsonMatch(msg)
    IN m # <<>> /\ JsonParse(m).ok /\ JsonParse(m).rl

\* the substring fallback
SubstringRateLimit(msg) ==
    \/ Includes(msg, "429")
    \/ Includes(msg, "RESOURCE_EXHAUSTED")
    \/ Includes(msg, "rate limit")

\* isRateLimitError without the fallback of lines 129-132
IsRateLimitErrorNoFallback(e) == e.isError /\ StructuredRateLimit(e.message)

\* isRateLimitError that takes every Error for a rate limit
IsRateLimitErrorAnyError(e) == e.isError

\* isRateLimitError of withRetry
IsRateLimitError(e) ==
    /\ e.isError
    /\ \/ StructuredRateLimit(e.message)
       \/ SubstringRateLimit(e.message)

\* the error of line 138, thrown when the last attempt is rate limited
Unavailable == ErrorOf(<<"temporarily unavailable">>)

\* failures of the service call explored by the queue
Failures ==
    { ErrorOf(<<"x">>),
      ErrorOf(<<"x", "429">>),
      ErrorOf(<<"RESOURCE_EXHAUSTED">>),
      ErrorOf(<<"rate limit">>),
      ErrorOf(<<"{", "error:{", "code:429", "}", "}">>),
      ErrorOf(<<"x", "{", "error:{", "status:RE", "}">>),
      ErrorOf(<<"{", "NL", "error:{", "code:429", "}", "NL", "}">>),
      ErrorOf(<<"{", "error:{", "}", "}">>),
      NonError }

\* ------------------------------------------------------------------------
\* Response interpretation of the six operations (lines 447-478, 517-547,
\* 575-584, 657-666, 723-753, 801-830)
\* ------------------------------------------------------------------------

Ops == {"generateStudioPhoto", "inpaintImage", "describeImage",
        "analyzeArtReference", "swapFace", "manipulateScene"}

\* a nullable string; a string is a sequence of words
Null == [tag |-> "null", v |-> <<>>]
Undefined == [tag |-> "undefined", v |-> <<>>]
Str(v) == [tag |-> "string", v |-> v]

\* content blocks of a candidate
ImagePart(mime, data) == [kind |-> "image", mimeType |-> mime, data |-> data, text |-> <<>>]
TextPart(words) == [kind |-> "text", mimeType |-> "", data |-> "", text |-> words]

\* JSON documents the service may answer analyzeArtReference with
JsonGoodStyle == "{lightingStyle:Rembrandt Lighting}"
JsonUnknownStyle == "{lightingStyle:Moonlight}"

PartValues ==
    { ImagePart("image/png", "AAAA"), ImagePart("image/jpeg", "BBBB"),
      TextPart(<<"done">>), TextPart(<<"more">>), TextPart(<<>>),
      TextPart(<<JsonGoodStyle>>), TextPart(<<JsonUnknownStyle>>) }

FinishReasons == {"absent", "STOP", "MAX_TOKENS", "SAFETY", "IMAGE_SAFETY", "RECITATION"}

\* safetyRatings of the candidate: absent, or a list of ratings
RatingValues ==
    { [present |-> FALSE, list |-> <<>>],
      [present |-> TRUE, list |-> <<>>],
      [present |-> TRUE, list |-> <<[category |-> "HARM_CATEGORY_HATE_SPEECH", blocked |-> TRUE]>>],
      [present |-> TRUE, list |-> <<[category |-> "HARM_CATEGORY_HARASSMENT", blocked |-> FALSE],
                                    [category |-> "HARM_CATEGORY_SEXUALLY_EXPLICIT", blocked |-> TRUE]>>] }

NoCandidate ==
    [hasCandidate |-> FALSE, finishReason |-> "absent",
     safetyRatings |-> [present |-> FALSE, list |-> <<>>], parts |-> <<>>]

Responses ==
    {NoCandidate} \cup
    { [hasCandidate |-> TRUE, finishReason |-> f, safetyRatings |-> r, parts |-> ps] :
        f \in FinishReasons, r \in RatingValues,
        ps \in UNION {[1..n -> PartValues] : n \in 0..MaxParts} }

\* r.category.replace('HARM_CATEGORY_', '')
StripHarmCategory(c) ==
    CASE c = "HARM_CATEGORY_HATE_SPEECH" -> "HATE_SPEECH"
      [] c = "HARM_CATEGORY_HARASSMENT" -> "HARASSMENT"
      [] c = "HARM_CATEGORY_SEXUALLY_EXPLICIT" -> "SEXUALLY_EXPLICIT"
      [] OTHER -> c

RECURSIVE BlockedCategories(_)
BlockedCategories(list) ==
    IF list = <<>> THEN <<>>
    ELSE (IF Head(list).blocked THEN <<StripHarmCategory(Head(list).category)>> ELSE <<>>)
            \o BlockedCategories(Tail(list))

\* blockedRatings?.join(', ') || 'unspecified'
BlockedText(ratings) ==
    IF ratings.present /\ BlockedCategories(ratings.list) # <<>>
    THEN BlockedCategories(ratings.list)
    ELSE <<"unspecified">>

\* `data:${mimeType};base64,${data}`
DataUri(part) == <<"data:", part.mimeType, ";base64,", part.data>>

\* the loop over firstCandidate.content.parts; concat: text blocks are
\* concatenated (true) or each replaces the one before (false)
RECURSIVE ScanParts(_, _, _)
ScanParts(parts, out, concat) ==
    IF parts = <<>> THEN out
    ELSE LET part == Head(parts)
             next == IF part.kind = "image"
                     THEN [out EXCEPT !.imageUrl = Str(DataUri(part))]
                     ELSE IF part.text # <<>>
                     THEN [out EXCEPT !.text =
                              IF concat THEN Str(out.text.v \o part.text) ELSE Str(part.text)]
                     ELSE out
         IN ScanParts(Tail(parts), next, concat)

\* the text accessor of the response object: the text blocks of the first
\* candidate joined, undefined when it has none
RECURSIVE JoinText(_)
JoinText(parts) ==
    IF parts = <<>> THEN <<>>
    ELSE (IF Head(parts).kind = "text" THEN Head(parts).text ELSE <<>>) \o JoinText(Tail(parts))

ResponseText(resp) ==
    IF resp.hasCandidate /\ \E i \in 1..Len(resp.parts) : resp.parts[i].kind = "text"
    THEN Str(JoinText(resp.parts))
    ELSE Undefined

\* results of an operation
NoFailure == [type |-> "none", detail |-> <<>>, wrapper |-> "none"]
NoValue == [imageUrl |-> Null, text |-> Null, lightingStyle |-> "none"]
Pending == [kind |-> "pending", value |-> NoValue, error |-> NoFailure]
Returns(v) == [kind |-> "returned", value |-> v, error |-> NoFailure]
\* an Error thrown in the try block and wrapped by the catch block of op
Throws(op, type, detail) ==
    [kind |-> "threw", value |-> NoValue,
     error |-> [type |-> type, detail |-> detail, wrapper |-> op]]

\* lines 453-460, 522-529, 728-735, 806-813: the finish reason of the
\* candidate; "accepted" when the operation goes on to the content
FinishCheck(resp) ==
    IF resp.finishReason # "absent" /\ resp.finishReason \notin {"STOP", "MAX_TOKENS"}
    THEN IF resp.finishReason \in {"SAFETY", "IMAGE_SAFETY"}
         THEN [type |-> "SafetyBlocked", detail |-> BlockedText(resp.safetyRatings)]
         ELSE [type |-> "UnexpectedFinish", detail |-> <<resp.finishReason>>]
    ELSE [type |-> "accepted", detail |-> <<>>]

\* ImageOperation returning whatever the scan produced, image or not
ImageOperationNoImageCheck(op, resp, concat) ==
    IF ~resp.hasCandidate THEN Throws(op, "EmptyResponse", <<>>)
    ELSE IF FinishCheck(resp).type # "accepted"
    THEN Throws(op, FinishCheck(resp).type, FinishCheck(resp).detail)
    ELSE Returns(ScanParts(resp.parts, [NoValue EXCEPT !.imageUrl = Null], concat))

\* generateStudioPhoto, inpaintImage, swapFace, manipulateScene after the
\* response arrived
ImageOperation(op, resp, concat) ==
    IF ~resp.hasCandidate THEN Throws(op, "EmptyResponse", <<>>)
    ELSE IF FinishCheck(resp).type # "accepted"
    THEN Throws(op, FinishCheck(resp).type, FinishCheck(resp).detail)
    ELSE LET out == ScanParts(resp.parts, [NoValue EXCEPT !.imageUrl = Null], concat)
         IN IF out.imageUrl.tag = "null" THEN Throws(op, "MissingImage", <<>>)
            ELSE Returns(out)

\* describeImage after the response arrived (lines 575-584)
DescribeImage(resp) ==
    IF resp.hasCandidate /\ resp.finishReason \notin {"absent", "STOP"}
          /\ resp.finishReason \in {"SAFETY", "IMAGE_SAFETY"}
    THEN Throws("describeImage", "SafetyBlocked", BlockedText(resp.safetyRatings))
    ELSE Returns([NoValue EXCEPT !.text = ResponseText(resp)])

\* LIGHTING_STYLES
LightingStyles ==
    {"None", "Three-Point Lighting", "Rembrandt Lighting", "Split Lighting",
     "Loop Lighting", "Butterfly Lighting", "High-Key Lighting", "Low-Key Lighting",
     "Motivated Lighting", "Natural / Ambient Lighting"}

\* JSON.parse of the answer: the lightingStyle of the document, "" when the
\* text is no single JSON document
ParsedStyle(words) ==
    IF words = <<JsonGoodStyle>> THEN "Rembrandt Lighting"
    ELSE IF words = <<JsonUnknownStyle>> THEN "Moonlight"
    ELSE ""

\* analyzeArtReference after the response arrived (lines 657-666)
AnalyzeArtReference(resp) ==
    LET text == ResponseText(resp)
    IN IF text.tag = "undefined" THEN Throws("analyzeArtReference", "TypeError", <<>>)
       ELSE IF ParsedStyle(text.v) = "" THEN Throws("analyzeArtReference", "SyntaxError", <<>>)
       ELSE Returns([NoValue EXCEPT !.text = text,
                        !.lightingStyle = IF ParsedStyle(text.v) \in LightingStyles
                                          THEN ParsedStyle(text.v) ELSE "None"])

\* Interpret with generateStudioPhoto replacing the text at each text block
InterpretGenerateOverwrites(op, resp) ==
    CASE op = "generateStudioPhoto" -> ImageOperation(op, resp, FALSE)
      [] op = "inpaintImage" -> ImageOperation(op, resp, FALSE)
      [] op = "swapFace" -> ImageOperation(op, resp, TRUE)
      [] op = "manipulateScene" -> ImageOperation(op, resp, FALSE)
      [] op = "describeImage" -> DescribeImage(resp)
      [] op = "analyzeArtReference" -> AnalyzeArtReference(resp)

\* Interpret with inpaintImage appending each text block to the text
InterpretInpaintConcatenates(op, resp) ==
    CASE op = "generateStudioPhoto" -> ImageOperation(op, resp, TRUE)
      [] op = "inpaintImage" -> ImageOperation(op, resp, TRUE)
      [] op = "swapFace" -> ImageOperation(op, resp, TRUE)
      [] op = "manipulateScene" -> ImageOperation(op, resp, FALSE)
      [] op = "describeImage" -> DescribeImage(resp)
      [] op = "analyzeArtReference" -> AnalyzeArtReference(resp)

\* what operation op makes of the response
Interpret(op, resp) ==
    CASE op = "generateStudioPhoto" -> ImageOperation(op, resp, TRUE)
      [] op = "inpaintImage" -> ImageOperation(op, resp, FALSE)
      [] op = "swapFace" -> ImageOperation(op, resp, TRUE)
      [] op = "manipulateScene" -> ImageOperation(op, resp, FALSE)
      [] op = "describeImage" -> DescribeImage(resp)
      [] op = "analyzeArtReference" -> AnalyzeArtReference(resp)

\* ------------------------------------------------------------------------
\* withRetry (lines 99-153)
\* ------------------------------------------------------------------------

\* a delay that grows by a fixed step at each attempt
DelayLinear(attempt, jitter) == InitialDelay * (attempt + 1) + jitter

\* delay = initialDelay * (backoffFactor ** attempt) + jitter
Delay(attempt, jitter) == InitialDelay * Pow(BackoffFactor, attempt) + jitter

\* the test of the last attempt, off by one
IsLastAttemptOffByOne(attempt) == attempt = MaxRetries

\* attempt === maxRetries - 1
IsLastAttempt(attempt) == attempt = MaxRetries - 1

\* a catch block that retries whatever the failure is
RetryAlways(e, attempt, jitter) ==
    IF IsLastAttempt(attempt)
    THEN [do |-> "throw", err |-> Unavailable, delay |-> 0]
    ELSE [do |-> "sleep", err |-> e, delay |-> Delay(attempt, jitter)]

\* the catch block of one attempt: what withRetry does with the failure e
\* of attempt number `attempt`
OnFailure(e, attempt, jitter) ==
    IF IsRateLimitError(e)
    THEN IF IsLastAttempt(attempt)
         THEN [do |-> "throw", err |-> Unavailable, delay |-> 0]
         ELSE [do |-> "sleep", err |-> e, delay |-> Delay(attempt, jitter)]
    ELSE [do |-> "throw", err |-> e, delay |-> 0]

\* ------------------------------------------------------------------------
\* The serial queue (lines 50-86)
\* ------------------------------------------------------------------------

VARIABLES
    requestQueue,   \* the tasks not started yet, oldest first
    isProcessing,   \* the flag of line 51
    job,            \* per enqueue call: where its task and its withRetry are
    timers,         \* remaining time of every pending setTimeout(processQueue)
    sinceSettle,    \* time since the last settlement, capped at Cooldown
    order,          \* the jobs in the order of their enqueue calls
    settled,        \* the jobs in the order their enqueue promises settled
    cmsg,           \* classification on its own: the message of the caught Error
    cres,           \* "pending", then "rate limit" or "other": isRateLimitError
    iop,            \* interpretation on its own: the operation called
    iresp,          \* the response its enqueue promise resolved with
    iresult,        \* Pending, then what the operation returned or threw
    pop,            \* request building on its own: the operation called
    preq,           \* the arguments of the call
    pparts,         \* <<>>, then the parts the operation sends
    aiAndModulePromise, \* initialization on its own: the singleton promise
    apiKey,         \* process.env.API_KEY is set
    call,           \* per operation call: where it is and what it threw
    keyReads,       \* how many times the initializer tested the credential
    clients,        \* how many times new GoogleGenAI(...) was evaluated
    history,        \* the application on its own: the outputs kept for undo / redo
    historyIndex,   \* position of the current output in history, -1 when none
    isLoading,      \* a generate or an in-painting is awaited
    isSwappingFace, \* a face swap is awaited
    isReperspectiving, \* a scene manipulation is awaited
    error,          \* an error message is shown
    isInpaintingEditorOpen, \* the in-painting editor covers the page
    awaited,        \* the handlers suspended at their await, oldest first
    made            \* how many outputs the operations returned so far

qvars == <<requestQueue, isProcessing, job, timers, sinceSettle, order, settled>>
cvars == <<cmsg, cres>>
ivars == <<iop, iresp, iresult>>
pvars == <<pop, preq, pparts>>
avars == <<aiAndModulePromise, apiKey, call, keyReads, clients>>
hvars == <<history, historyIndex, isLoading, isSwappingFace, isReperspectiving, error,
           isInpaintingEditorOpen, awaited, made>>
vars == <<qvars, cvars, ivars, pvars, avars, hvars>>

NoError == [isError |-> FALSE, message |-> <<"none">>]

\* no response delivered (yet), or the response was consumed
NoResponse ==
    [hasCandidate |-> FALSE, finishReason |-> "none",
     safetyRatings |-> [present |-> FALSE, list |-> <<>>], parts |-> <<>>]

\* responses the service delivers to a queued call: no candidate, a blocked
\* one, one stopped for another reason, one without image, one with image
DeliveredResponses ==
    { NoCandidate,
      [hasCandidate |-> TRUE, finishReason |-> "SAFETY",
       safetyRatings |-> [present |-> TRUE, list |-> <<>>], parts |-> <<>>],
      [hasCandidate |-> TRUE, finishReason |-> "RECITATION",
       safetyRatings |-> [present |-> FALSE, list |-> <<>>], parts |-> <<>>],
      [hasCandidate |-> TRUE, finishReason |-> "STOP",
       safetyRatings |-> [present |-> FALSE, list |-> <<>>],
       parts |-> <<TextPart(<<"done">>)>>],
      [hasCandidate |-> TRUE, finishReason |-> "STOP",
       safetyRatings |-> [present |-> FALSE, list |-> <<>>],
       parts |-> <<TextPart(<<"done">>), ImagePart("image/png", "AAAA")>>] }

\* the operation that made enqueue call j: the four that return an image,
\* in turn
QueuedOps == <<"generateStudioPhoto", "inpaintImage", "swapFace", "manipulateScene">>
OpOf(j) == QueuedOps[((j - 1) % Len(QueuedOps)) + 1]

\* resp: what the awaited apiCall() resolved with; outcome: how the
\* operation that awaits the enqueue promise ended, "ended" once a later
\* operation has ended
NewJob ==
    [st |-> "new", attempt |-> 0, calls |-> 0, sleeps |-> 0, sleepLeft |-> 0,
     delay |-> 0, lastError |-> NoError, out |-> "none", err |-> NoError, gap |-> 0,
     resp |-> NoResponse, outcome |-> "none"]

\* the enqueue promise of j settled and the operation awaiting it has not
\* resumed yet
Resuming(j) == job[j].st = "settled" /\ job[j].outcome = "none"

InFlight(j) == job[j].st \in {"calling", "sleeping", "returned"}
Started(j) == job[j].st \in {"calling", "sleeping", "returned", "settled"}

\* taking the newest task instead of the oldest
ShiftLast(q) == [task |-> q[Len(q)], rest |-> SubSeq(q, 1, Len(q) - 1)]

\* requestQueue.shift()
Shift(q) == [task |-> Head(q), rest |-> Tail(q)]

\* a guard that forgets the flag
CanStartIgnoringFlag(ip, q) == Len(q) # 0

\* the guard of processQueue: if (isProcessing || requestQueue.length === 0) return
CanStart(ip, q) == ~ip /\ Len(q) # 0

\* the flag set before the guard is tested
FlagSetBeforeGuard(ip, q) == TRUE

\* isProcessing after processQueue ran on flag ip and queue q
FlagAfterProcessQueue(ip, q) == IF CanStart(ip, q) THEN TRUE ELSE ip

\* processQueue(): starts the oldest task unless one is running.  The task
\* runs synchronously up to its first await, which is inside the first
\* apiCall() of withRetry.  ip, q, jb: the state processQueue finds.
ProcessQueue(ip, q, jb) ==
    /\ isProcessing' = FlagAfterProcessQueue(ip, q)
    /\ IF CanStart(ip, q)
       THEN LET t == Shift(q).task
            IN /\ requestQueue' = Shift(q).rest
               /\ job' = [jb EXCEPT ![t].st = "calling", ![t].attempt = 0,
                                    ![t].calls = 1, ![t].gap = sinceSettle']
       ELSE /\ requestQueue' = q
            /\ job' = jb

\* enqueue(apiCall): push the task, then processQueue().  An operation that
\* is about to resume after its await does so first.
Enqueue(j) ==
    /\ job[j].st = "new"
    /\ \A k \in Jobs : ~Resuming(k)
    /\ \A k \in Jobs : k < j => job[k].st # "new"
    /\ order' = Append(order, j)
    /\ sinceSettle' = sinceSettle
    /\ ProcessQueue(isProcessing, Append(requestQueue, j), [job EXCEPT ![j].st = "queued"])
    /\ UNCHANGED <<timers, settled, cvars, ivars, pvars, avars, hvars>>

\* a loop that goes on to the next attempt after a success
NextAttemptAfterSuccess(jr) ==
    IF jr.attempt + 1 < MaxRetries
    THEN [jr EXCEPT !.attempt = @ + 1, !.calls = @ + 1]
    ELSE [jr EXCEPT !.st = "returned", !.out = "value"]

\* return await apiCall(): withRetry returns the value, the loop is left
ReturnAwait(jr) == [jr EXCEPT !.st = "returned", !.out = "value"]

\* the awaited apiCall() of withRetry resolves: return await apiCall()
AttemptSucceeds(j, resp) ==
    /\ job[j].st = "calling"
    /\ job' = [job EXCEPT ![j] = [ReturnAwait(job[j]) EXCEPT !.resp = resp]]
    /\ UNCHANGED <<requestQueue, isProcessing, timers, sinceSettle, order, settled, cvars, ivars, pvars, avars, hvars>>

\* the awaited apiCall() of withRetry rejects with e: the catch block
AttemptFails(j, e, jitter) ==
    /\ job[j].st = "calling"
    /\ LET r == OnFailure(e, job[j].attempt, jitter)
       IN job' = IF r.do = "sleep"
                 THEN [job EXCEPT ![j].st = "sleeping", ![j].lastError = e,
                                  ![j].sleeps = @ + 1, ![j].delay = r.delay,
                                  ![j].sleepLeft = r.delay]
                 ELSE [job EXCEPT ![j].st = "returned", ![j].lastError = e,
                                  ![j].out = "error", ![j].err = r.err]
    /\ UNCHANGED <<requestQueue, isProcessing, timers, sinceSettle, order, settled, cvars, ivars, pvars, avars, hvars>>

\* the backoff timer fires: attempt++, the loop test, the next apiCall()
BackoffDone(j) ==
    /\ job[j].st = "sleeping"
    /\ job[j].sleepLeft = 0
    /\ \A k \in Jobs : job[k].st # "returned" /\ ~Resuming(k)
    /\ job' = IF job[j].attempt + 1 < MaxRetries
              THEN [job EXCEPT ![j].st = "calling", ![j].attempt = @ + 1,
                               ![j].calls = @ + 1]
              ELSE [job EXCEPT ![j].st = "returned", ![j].attempt = @ + 1,
                               ![j].out = "error", ![j].err = job[j].lastError]
    /\ UNCHANGED <<requestQueue, isProcessing, timers, sinceSettle, order, settled, cvars, ivars, pvars, avars, hvars>>

\* a finally block that schedules nothing
NoWakeUp(ts) == ts

\* setTimeout(processQueue, 1000): one more pending timer
SetTimeoutProcessQueue(ts) == Append(ts, Cooldown)

\* the task resumes after await apiCall(): resolve or reject, then finally
TaskSettles(j) ==
    /\ job[j].st = "returned"
    /\ job' = [job EXCEPT ![j] = [NewJob EXCEPT !.st = "settled", !.out = job[j].out,
                                                 !.resp = job[j].resp]]
    /\ isProcessing' = FALSE
    /\ timers' = SetTimeoutProcessQueue(timers)
    /\ sinceSettle' = 0
    /\ settled' = Append(settled, j)
    /\ UNCHANGED <<requestQueue, order, cvars, ivars, pvars, avars, hvars>>

\* a timer set by the finally block fires: processQueue()
TimerFires ==
    /\ timers # <<>>
    /\ Head(timers) = 0
    /\ \A k \in Jobs : job[k].st # "returned" /\ ~Resuming(k)
    /\ timers' = Tail(timers)
    /\ sinceSettle' = sinceSettle
    /\ ProcessQueue(isProcessing, requestQueue, job)
    /\ UNCHANGED <<order, settled, cvars, ivars, pvars, avars, hvars>>

\* time to the next timer (cool-down or backoff) that is still to fire
NextDeadline ==
    LET ds == {timers[i] : i \in 1..Len(timers)}
                \cup {job[j].sleepLeft : j \in {k \in Jobs : job[k].st = "sleeping"}}
    IN IF ds = {} THEN 0 ELSE CHOOSE d \in ds : \A x \in ds : d <= x

\* time passes, by d: no timer is overdue, and no continuation is waiting
Advance(d) ==
    /\ d > 0
    /\ d <= NextDeadline
    /\ d \in PartSteps => timers # <<>>
    /\ \A k \in Jobs : job[k].st # "returned" /\ ~Resuming(k)
    /\ timers' = [i \in 1..Len(timers) |-> timers[i] - d]
    /\ job' = [j \in Jobs |-> IF job[j].st = "sleeping"
                              THEN [job[j] EXCEPT !.sleepLeft = @ - d]
                              ELSE job[j]]
    /\ sinceSettle' = Min(Cooldown, sinceSettle + d)
    /\ UNCHANGED <<requestQueue, isProcessing, order, settled, cvars, ivars, pvars, avars, hvars>>

\* an operation that calls the service again when it rejects the response
CallsAgainOnRejection(jr, result) ==
    IF result.kind = "returned"
    THEN [jr EXCEPT !.outcome = "accepted", !.resp = NoResponse]
    ELSE [jr EXCEPT !.st = "calling", !.calls = 1, !.resp = NoResponse]

\* lines 447-483 and their like: the operation returns the output, or throws
\* and its catch block rethrows the wrapped error to the caller
OperationEnds(jr, result) ==
    [jr EXCEPT !.outcome = IF result.kind = "returned" THEN "accepted" ELSE "rejected",
               !.resp = NoResponse]

\* the operation resumes after await enqueue(...): with the response it
\* interprets it, with the rejection of withRetry it goes to its catch block
OperationInterprets(j) ==
    /\ Resuming(j)
    /\ job' = [k \in Jobs |->
                 IF k = j
                 THEN IF job[j].out = "value"
                      THEN OperationEnds(job[j], Interpret(OpOf(j), job[j].resp))
                      ELSE [job[j] EXCEPT !.outcome = "failed"]
                 ELSE IF job[k].outcome = "none" THEN job[k]
                 ELSE [job[k] EXCEPT !.outcome = "ended"]]
    /\ UNCHANGED <<requestQueue, isProcessing, timers, sinceSettle, order, settled, cvars, ivars, pvars, avars, hvars>>

Next ==
    \/ \E j \in Jobs : Enqueue(j)
    \/ \E j \in Jobs, resp \in DeliveredResponses : AttemptSucceeds(j, resp)
    \/ \E j \in Jobs, e \in Failures, jitter \in Jitters : AttemptFails(j, e, jitter)
    \/ \E j \in Jobs : BackoffDone(j)
    \/ \E j \in Jobs : TaskSettles(j)
    \/ \E j \in Jobs : OperationInterprets(j)
    \/ TimerFires
    \/ \E d \in PartSteps \cup {NextDeadline} : Advance(d)

\* ------------------------------------------------------------------------
\* The classification on its own: one message, classified once
\* ------------------------------------------------------------------------

Toks == TextToks \cup BodyToks

Messages == UNION {[1..n -> Toks] : n \in 0..MaxBody}

Classify ==
    /\ cres = "pending"
    /\ cres' = IF IsRateLimitError(ErrorOf(cmsg)) THEN "rate limit" ELSE "other"
    /\ UNCHANGED <<cmsg, qvars, ivars, pvars, avars, hvars>>

\* ------------------------------------------------------------------------
\* The interpretation on its own: one delivered response, interpreted once
\* by one operation
\* ------------------------------------------------------------------------

InterpretResponse ==
    /\ iresult = Pending
    /\ iresult' = Interpret(iop, iresp)
    /\ UNCHANGED <<iop, iresp, qvars, cvars, pvars, avars, hvars>>

\* ------------------------------------------------------------------------
\* Request payloads of the six operations (lines 259-434, 501-505, 566-569,
\* 620-626, 707-711, 784-787): the arguments of one call and the parts it
\* sends. A text is a sequence of phrases.
\* ------------------------------------------------------------------------

\* an optional image that was not given
NoImage == [mimeType |-> "", base64 |-> ""]
ImageFile(name) == [mimeType |-> "image/png", base64 |-> name]

fileToGenerativePart(file) == ImagePart(file.mimeType, file.base64)

\* the arguments of generateStudioPhoto as the application first holds them
\* (sourceImage given); prompt is the text argument of inpaintImage and
\* manipulateScene; exposure is counted in tenths of an EV
DefaultRequest ==
    [ sourceImage |-> ImageFile("subject"), subjectMode |-> "single", subjectPrompt |-> "",
      faceReferenceImage |-> NoImage, dressImage |-> NoImage, dressPrompt |-> "",
      objectImage |-> NoImage, backgroundImage |-> NoImage, backgroundPrompt |-> "",
      backgroundMode |-> "describe", stylePrompt |-> <<>>,
      artReferenceImage |-> NoImage, artReferencePrompt |-> "",
      artStyleInfluence |-> 75, subjectInfluence |-> 75, surprise |-> 25,
      integrationAnalysis |-> "", lightingStyle |-> "None",
      perspectiveDistance |-> "None", perspectiveAngle |-> "None", perspectivePOV |-> "None",
      perspectiveMovement |-> "None", perspectiveLens |-> "None",
      useArtReferenceLighting |-> FALSE, useArtReferenceSkin |-> FALSE,
      flyerText |-> "", thumbnailText |-> "",
      skinTexture |-> "None", highlightStyle |-> "None", highlightIntensity |-> "None",
      aperture |-> "None", shutterSpeed |-> "None", iso |-> "None",
      focusMode |-> "Auto", manualFocusSubject |-> "", exposure |-> 0,
      lensType |-> "None", shootingMode |-> "None", lightingTemperature |-> 5500,
      prompt |-> "" ]

Fields == DOMAIN DefaultRequest
PromptFields == {"prompt"}
GenerateFields == Fields \ (PromptFields \cup {"sourceImage"})

\* the values a field is set to, other than its first value
AltValues(f) ==
    CASE f = "subjectMode" -> {"multiple"}
      [] f = "subjectPrompt" -> {"wearing glasses"}
      [] f = "faceReferenceImage" -> {ImageFile("face")}
      [] f = "dressImage" -> {ImageFile("dress")}
      [] f = "dressPrompt" -> {"make it red"}
      [] f = "objectImage" -> {ImageFile("object")}
      [] f = "backgroundImage" -> {ImageFile("background")}
      [] f = "backgroundPrompt" -> {"a beach at sunset"}
      [] f = "backgroundMode" -> {"upload", "random"}
      [] f = "stylePrompt" -> {<<"Cinematic">>, <<"Flyer Design">>, <<"Thumbnail Design">>,
                               <<"Thumbnail Design", "Flyer Design">>}
      [] f = "artReferenceImage" -> {ImageFile("art")}
      [] f = "artReferencePrompt" -> {"watercolour"}
      [] f = "artStyleInfluence" -> {100}
      [] f = "subjectInfluence" -> {40, 100}
      [] f = "surprise" -> {0}
      [] f = "integrationAnalysis" -> {"blend softly"}
      [] f = "lightingStyle" -> {"Rembrandt Lighting"}
      [] f = "perspectiveDistance" -> {"Close-Up (CU)"}
      [] f = "perspectiveAngle" -> {"Eye-Level"}
      [] f = "perspectivePOV" -> {"Point of View (POV)"}
      [] f = "perspectiveMovement" -> {"Zoom In/Out"}
      [] f = "perspectiveLens" -> {"Silhouette Shot"}
      [] f = "useArtReferenceLighting" -> {TRUE}
      [] f = "useArtReferenceSkin" -> {TRUE}
      [] f = "flyerText" -> {"Grand Opening"}
      [] f = "thumbnailText" -> {"You won't believe this"}
      [] f = "skinTexture" -> {"Smooth", "Professional Dodge & Burn",
                               "Professional Frequency Separation"}
      [] f = "highlightStyle" -> {"Glossy"}
      [] f = "highlightIntensity" -> {"Medium"}
      [] f = "aperture" -> {"f/1.8"}
      [] f = "shutterSpeed" -> {"1/250s"}
      [] f = "iso" -> {"400"}
      [] f = "focusMode" -> {"Manual", "Subject's Eyes"}
      [] f = "manualFocusSubject" -> {"the ring"}
      [] f = "exposure" -> {5, -10}
      [] f = "lensType" -> {"85mm (Portrait)"}
      [] f = "shootingMode" -> {"Portrait"}
      [] f = "lightingTemperature" -> {3950, 4000, 6500, 6550}
      [] f = "prompt" -> {"a red scarf"}

\* stylePrompt is the selected effects joined; includes(marker) finds a
\* selected effect
Selects(stylePrompt, effect) == \E i \in 1..Len(stylePrompt) : stylePrompt[i] = effect

FlyerInstructions(r) ==
    <<"You are an expert graphic designer creating a professional promotional flyer.",
      "- **Primary Task:** Your main goal is to create a visually appealing flyer.",
      "- **Subject Integration:** The provided image contains the main subject(s).",
      "- **Text Content:** The flyer MUST include the following text.", r.flyerText,
      "- **Style:** The overall style should be professional, modern, and eye-catching.",
      "- **Output:** The final image MUST be a cohesive, high-quality flyer.">>

ThumbnailInstructions(r) ==
    <<"You are a professional YouTube thumbnail designer.",
      "- **Primary Task:** Create an engaging thumbnail that grabs attention.",
      "- **Subject Integration:** The provided image is the main subject(s).",
      "- **Text Content:** The thumbnail MUST include this text, making it bold, readable, and exciting:",
      r.thumbnailText,
      "- **Style:** The design should be eye-catching, high-contrast, and follow modern social media trends.",
      "- **Output:** The final image must be a high-quality thumbnail.">>

subjectNoun(r) == IF r.subjectMode = "single" THEN "person" ELSE "person(s)"
subjectNounPlural(r) == IF r.subjectMode = "single" THEN "subject" ELSE "subjects"

MasterPrompt ==
    <<"You are an expert AI photo editor and virtual photographer.",
      "You will be provided with images labeled like [Subject], [Art Style], etc.">>

\* the subject section with the preserve-identity directive whatever the
\* art reference
subjectInstructionsAlwaysPreserve(r) ==
    <<"**1. SUBJECT & IDENTITY (PARAMOUNT PRIORITY)**",
      "- The", subjectNoun(r), "in the [Subject] image is/are your primary subject.",
      "- **CRITICAL:** You MUST perfectly preserve their facial features, structure, and identity.",
      "The final image must be unmistakably the same", subjectNoun(r)>>

\* 1. Subject and Face
subjectInstructions(r) ==
    <<"**1. SUBJECT & IDENTITY (PARAMOUNT PRIORITY)**",
      "- The", subjectNoun(r), "in the [Subject] image is/are your primary subject.">>
    \o (IF r.artReferenceImage # NoImage
        THEN <<"- **CRITICAL - SUBJECT INFLUENCE", ToString(r.subjectInfluence), "/100:**",
               "You MUST retain the subject's identity.",
               "A value of 100 requires a perfect, photorealistic match to the original",
               subjectNoun(r),
               "A lower value allows for more artistic interpretation of their features to better match the art style,",
               "while still ensuring the", subjectNoun(r), "is/are recognizable.",
               "This is your most important instruction.">>
        ELSE <<"- **CRITICAL:** You MUST perfectly preserve their facial features, structure, and identity.",
               "The final image must be unmistakably the same", subjectNoun(r)>>)
    \o (IF r.subjectPrompt # ""
        THEN <<"- Apply these modifications to the", subjectNounPlural(r),
               ", while maintaining their identity:", r.subjectPrompt>>
        ELSE <<>>)
    \o (IF r.faceReferenceImage # NoImage
        THEN <<"- **CRITICAL FACE OVERRIDE:** The [Face Reference] image provides the definitive likeness of the subject.">>
        ELSE <<>>)

\* 2. Art Style
artStylePrompts(r) ==
    IF r.artReferenceImage = NoImage THEN <<>>
    ELSE <<"**2. ART STYLE APPLICATION**",
           "- Analyze the [Art Style] image.">>
         \o (IF r.artReferencePrompt # ""
             THEN <<"- The style is described as:", r.artReferencePrompt>> ELSE <<>>)
         \o <<"- **Style Influence:** Apply the reference style with an influence level of",
              ToString(r.artStyleInfluence), "/100",
              "- **Creative Freedom (Surprise):** You have a creative freedom level of",
              ToString(r.surprise), "/100">>
         \o (IF r.integrationAnalysis # ""
             THEN <<"- **Execution Plan:** Follow this user-approved plan:", r.integrationAnalysis>>
             ELSE <<>>)
         \o (IF r.useArtReferenceSkin
             THEN <<"- **CRITICAL - SKIN & HIGHLIGHT MATCH:** Analyze the skin texture and highlights on the person in the [Art Style] image.",
                    "you MUST preserve the subject's original skin tone and color">>
             ELSE <<>>)
         \o (IF r.useArtReferenceLighting
             THEN <<"- **CRITICAL - LIGHTING MATCH:** Apply the lighting from the [Art Style] image (color, shadows, direction) perfectly to the subject(s).">>
             ELSE <<>>)
         \o <<"- **IMPORTANT:** DO NOT simply copy or output the [Art Style] image.">>

\* the background image used whenever one is held, whatever the mode
UsesBackgroundImageIgnoringMode(r) == r.backgroundImage # NoImage

\* the background image is used: backgroundMode === 'upload' && backgroundImage
UsesBackgroundImage(r) == r.backgroundMode = "upload" /\ r.backgroundImage # NoImage

\* 3. Composition (Outfit, Object, Background)
compoInstructions(r) ==
    (IF r.dressImage # NoImage
     THEN <<"**Outfit:**",
            "- From the [Outfit] image, you must extract **ONLY THE CLOTHING/OUTFIT**.",
            "- **STRICTLY IGNORE EVERYTHING ELSE** in the [Outfit] image",
            "- Apply this extracted outfit naturally onto the main subject(s).">>
          \o (IF r.dressPrompt # ""
              THEN <<"- Apply these modifications to the outfit:", r.dressPrompt>> ELSE <<>>)
     ELSE <<>>)
    \o (IF r.objectImage # NoImage
        THEN <<"**Object:**",
               "- From the [Object] image, identify any non-clothing objects and incorporate them naturally into the scene with the subject(s).">>
        ELSE <<>>)
    \o (IF UsesBackgroundImage(r)
        THEN <<"**Background:**", "- Use the [Background] image as the new background.">>
             \o (IF r.backgroundPrompt # ""
                 THEN <<"- Apply these modifications to the background:", r.backgroundPrompt>>
                 ELSE <<>>)
        ELSE IF r.backgroundMode = "describe" /\ r.backgroundPrompt # ""
        THEN <<"**Background:**", "- Create a new background based on this description:",
               r.backgroundPrompt>>
        ELSE IF r.backgroundMode = "random"
        THEN <<"**Background:**",
               "- Generate a random, photorealistic, professional studio background that complements the subject(s).">>
        ELSE <<>>)

\* the final touches with the highlights given whatever the skin delegation
finalTouchesHighlightsUngated(r) ==
    (IF r.lightingStyle # "None" /\ ~r.useArtReferenceLighting
     THEN <<"- **CRITICAL LIGHTING:** Apply a professional", r.lightingStyle,
            "lighting setup to the entire scene.">>
     ELSE <<>>)
    \o (IF ~r.useArtReferenceSkin
        THEN (IF r.skinTexture = "Professional Dodge & Burn"
              THEN <<"- **SKIN RETOUCHING:** Apply a professional 'dodge and burn' retouching technique">>
              ELSE IF r.skinTexture = "Professional Frequency Separation"
              THEN <<"- **SKIN RETOUCHING:** Apply a professional 'frequency separation' retouching technique.">>
              ELSE IF r.skinTexture # "None"
              THEN <<"- **SKIN TEXTURE:** Render the subject's skin with a", r.skinTexture, "texture.">>
              ELSE <<>>)
        ELSE <<>>)
    \o (IF r.highlightStyle # "None" /\ r.highlightIntensity # "None"
        THEN <<"- **SKIN HIGHLIGHTS:** Apply", r.highlightStyle,
               "highlights to the skin at a", r.highlightIntensity, "intensity.">>
        ELSE <<>>)
    \o (IF r.stylePrompt # <<>>
        THEN <<"- **ADDITIONAL EFFECTS:** Render the final image incorporating this style:">>
             \o r.stylePrompt
        ELSE <<>>)

\* 4. Final Touches
finalTouches(r) ==
    (IF r.lightingStyle # "None" /\ ~r.useArtReferenceLighting
     THEN <<"- **CRITICAL LIGHTING:** Apply a professional", r.lightingStyle,
            "lighting setup to the entire scene.">>
     ELSE <<>>)
    \o (IF ~r.useArtReferenceSkin
        THEN (IF r.skinTexture = "Professional Dodge & Burn"
              THEN <<"- **SKIN RETOUCHING:** Apply a professional 'dodge and burn' retouching technique">>
              ELSE IF r.skinTexture = "Professional Frequency Separation"
              THEN <<"- **SKIN RETOUCHING:** Apply a professional 'frequency separation' retouching technique.">>
              ELSE IF r.skinTexture # "None"
              THEN <<"- **SKIN TEXTURE:** Render the subject's skin with a", r.skinTexture, "texture.">>
              ELSE <<>>)
             \o (IF r.highlightStyle # "None" /\ r.highlightIntensity # "None"
                 THEN <<"- **SKIN HIGHLIGHTS:** Apply", r.highlightStyle,
                        "highlights to the skin at a", r.highlightIntensity, "intensity.">>
                 ELSE <<>>)
        ELSE <<>>)
    \o (IF r.stylePrompt # <<>>
        THEN <<"- **ADDITIONAL EFFECTS:** Render the final image incorporating this style:">>
             \o r.stylePrompt
        ELSE <<>>)

\* one camera setting, given when it is not 'None'
CameraFacet(label, value) == IF value # "None" THEN <<label, value>> ELSE <<>>

\* the description with the boundary values counted as warm and cool
tempDescInclusive(lightingTemperature) ==
    IF lightingTemperature <= 4000 THEN "warm, tungsten-like"
    ELSE IF lightingTemperature >= 6500 THEN "cool, overcast-like"
    ELSE "neutral daylight"

tempDesc(lightingTemperature) ==
    IF lightingTemperature < 4000 THEN "warm, tungsten-like"
    ELSE IF lightingTemperature > 6500 THEN "cool, overcast-like"
    ELSE "neutral daylight"

\* exposure.toFixed(1) of an exposure counted in tenths
toFixed(tenths) ==
    (IF tenths < 0 THEN "-" ELSE "") \o
    ToString((IF tenths < 0 THEN -tenths ELSE tenths) \div 10) \o "." \o
    ToString((IF tenths < 0 THEN -tenths ELSE tenths) % 10)

\* 5. Camera Settings
cameraDetails(r) ==
    CameraFacet("Shooting Style:", r.shootingMode)
    \o CameraFacet("Lens:", r.lensType)
    \o CameraFacet("Framing/Distance:", r.perspectiveDistance)
    \o CameraFacet("Angle/Tilt:", r.perspectiveAngle)
    \o CameraFacet("Point of View:", r.perspectivePOV)
    \o CameraFacet("Camera Movement:", r.perspectiveMovement)
    \o CameraFacet("Lens/Creative Style:", r.perspectiveLens)
    \o CameraFacet("Aperture:", r.aperture)
    \o CameraFacet("Shutter Speed:", r.shutterSpeed)
    \o CameraFacet("ISO:", r.iso)
    \o <<"Color Temperature:", ToString(r.lightingTemperature) \o "K",
         "(" \o tempDesc(r.lightingTemperature) \o " light)">>
    \o (IF r.focusMode = "Manual" /\ r.manualFocusSubject # ""
        THEN <<"Focus: Manually set the sharpest point of focus on", r.manualFocusSubject>>
        ELSE IF r.focusMode # "Auto" /\ r.focusMode # "Manual"
        THEN <<"Focus: Set the sharpest point of focus on the", r.focusMode>>
        ELSE <<>>)
    \o (IF r.exposure # 0
        THEN <<"Exposure Compensation:",
               (IF r.exposure > 0 THEN "+" ELSE "") \o toFixed(r.exposure), "EV",
               IF r.exposure > 0 THEN "(brighter image)" ELSE "(darker image)">>
        ELSE <<>>)

\* the sections with the camera settings pushed before the final touches
instructionSetCameraFirst(r) ==
    MasterPrompt
    \o subjectInstructions(r)
    \o artStylePrompts(r)
    \o (IF compoInstructions(r) # <<>>
        THEN <<"**3. COMPOSITION & SCENE**">> \o compoInstructions(r) ELSE <<>>)
    \o (IF cameraDetails(r) # <<>>
        THEN <<"**5. CAMERA & LENS SETTINGS**",
               "- **CRITICAL:** Simulate a professional camera with these settings:">>
             \o cameraDetails(r)
        ELSE <<>>)
    \o (IF finalTouches(r) # <<>>
        THEN <<"**4. FINAL STYLIZATION**">> \o finalTouches(r) ELSE <<>>)
    \o <<"**FINAL OUTPUT REQUIREMENTS**",
         "- Combine all elements into a single, cohesive, high-quality image, prioritizing the subject's identity above all.">>

\* the sections pushed, in the order of the pushes
instructionSet(r) ==
    MasterPrompt
    \o subjectInstructions(r)
    \o artStylePrompts(r)
    \o (IF compoInstructions(r) # <<>>
        THEN <<"**3. COMPOSITION & SCENE**">> \o compoInstructions(r) ELSE <<>>)
    \o (IF finalTouches(r) # <<>>
        THEN <<"**4. FINAL STYLIZATION**">> \o finalTouches(r) ELSE <<>>)
    \o (IF cameraDetails(r) # <<>>
        THEN <<"**5. CAMERA & LENS SETTINGS**",
               "- **CRITICAL:** Simulate a professional camera with these settings:">>
             \o cameraDetails(r)
        ELSE <<>>)
    \o <<"**FINAL OUTPUT REQUIREMENTS**",
         "- Combine all elements into a single, cohesive, high-quality image, prioritizing the subject's identity above all.">>

\* a label line and the image it announces, when the image is given
Labelled(label, file, given) ==
    IF given THEN <<TextPart(<<label>>), fileToGenerativePart(file)>> ELSE <<>>

\* the parts with the thumbnail template tested before the flyer template
GeneratePartsThumbnailFirst(r) ==
    IF Selects(r.stylePrompt, "Thumbnail Design")
    THEN <<TextPart(ThumbnailInstructions(r)), fileToGenerativePart(r.sourceImage)>>
    ELSE IF Selects(r.stylePrompt, "Flyer Design")
    THEN <<TextPart(FlyerInstructions(r)), fileToGenerativePart(r.sourceImage)>>
    ELSE <<TextPart(instructionSet(r))>>
         \o Labelled("This is the [Subject] image:", r.sourceImage, TRUE)
         \o Labelled("This is the [Face Reference] image:", r.faceReferenceImage,
                     r.faceReferenceImage # NoImage)
         \o Labelled("This is the [Art Style] image:", r.artReferenceImage,
                     r.artReferenceImage # NoImage)
         \o Labelled("This is the [Outfit] image:", r.dressImage, r.dressImage # NoImage)
         \o Labelled("This is the [Object] image:", r.objectImage, r.objectImage # NoImage)
         \o Labelled("This is the [Background] image:", r.backgroundImage,
                     UsesBackgroundImage(r))

\* the parts generateStudioPhoto sends
GenerateParts(r) ==
    IF Selects(r.stylePrompt, "Flyer Design")
    THEN <<TextPart(FlyerInstructions(r)), fileToGenerativePart(r.sourceImage)>>
    ELSE IF Selects(r.stylePrompt, "Thumbnail Design")
    THEN <<TextPart(ThumbnailInstructions(r)), fileToGenerativePart(r.sourceImage)>>
    ELSE <<TextPart(instructionSet(r))>>
         \o Labelled("This is the [Subject] image:", r.sourceImage, TRUE)
         \o Labelled("This is the [Face Reference] image:", r.faceReferenceImage,
                     r.faceReferenceImage # NoImage)
         \o Labelled("This is the [Art Style] image:", r.artReferenceImage,
                     r.artReferenceImage # NoImage)
         \o Labelled("This is the [Outfit] image:", r.dressImage, r.dressImage # NoImage)
         \o Labelled("This is the [Object] image:", r.objectImage, r.objectImage # NoImage)
         \o Labelled("This is the [Background] image:", r.backgroundImage,
                     UsesBackgroundImage(r))

\* the parts inpaintImage sends
InpaintParts(r) ==
    <<TextPart(<<"You are an expert AI photo editor. The user has provided an image, a mask, and a prompt.",
                 "Your task is to regenerate ONLY the masked area of the image based on the prompt:",
                 r.prompt,
                 "The masked area is indicated in the second image.">>),
      fileToGenerativePart(r.sourceImage),
      fileToGenerativePart(ImageFile("mask"))>>

\* the parts describeImage sends
DescribeParts(r) ==
    <<TextPart(<<"Briefly describe the person or people in this photo in one short sentence, focusing on key visual features for an AI editor.">>),
      fileToGenerativePart(r.sourceImage)>>

\* the parts analyzeArtReference sends
AnalyzeParts(r) ==
    <<TextPart(<<"You are an expert AI artist and prompt engineer analyzing two images: a [SUBJECT IMAGE] and an [ART STYLE IMAGE].",
                 "Provide your response strictly in the requested JSON format, with no extra text or explanations.">>),
      TextPart(<<"This is the [SUBJECT IMAGE]:">>),
      fileToGenerativePart(r.sourceImage),
      TextPart(<<"This is the [ART STYLE IMAGE]:">>),
      fileToGenerativePart(ImageFile("art"))>>

\* the parts swapFace sends
SwapFaceParts(r) ==
    <<TextPart(<<"You are a world-class AI digital artist specializing in hyperrealistic and style-consistent portrait recreation.",
                 "**TARGET IMAGE (First Image):** This is the main image with the style, lighting, and composition that MUST be preserved.",
                 "**FACE SOURCE IMAGE (Second Image):** This image provides the facial identity (features, structure, expression) that you must transfer.">>),
      fileToGenerativePart(r.sourceImage),
      fileToGenerativePart(ImageFile("face"))>>

\* the parts manipulateScene sends
ManipulateSceneParts(r) ==
    <<TextPart(<<"You are an expert AI cinematographer.",
                 "**Source Image:** The first image is the original scene.",
                 "**User Prompt:**", r.prompt>>),
      fileToGenerativePart(r.sourceImage)>>

RequestParts(op, r) ==
    CASE op = "generateStudioPhoto" -> GenerateParts(r)
      [] op = "inpaintImage" -> InpaintParts(r)
      [] op = "describeImage" -> DescribeParts(r)
      [] op = "analyzeArtReference" -> AnalyzeParts(r)
      [] op = "swapFace" -> SwapFaceParts(r)
      [] op = "manipulateScene" -> ManipulateSceneParts(r)

\* the fields that no longer hold their first value
Changed(r) == {f \in Fields : r[f] # DefaultRequest[f]}

\* the arguments an operation takes besides its images
FieldsOf(op) ==
    CASE op = "generateStudioPhoto" -> GenerateFields
      [] op \in {"inpaintImage", "manipulateScene"} -> PromptFields
      [] OTHER -> {}

\* the user fills in one more argument before the call is made
SetField(f, v) ==
    /\ pparts = <<>>
    /\ f \in FieldsOf(pop)
    /\ preq[f] = DefaultRequest[f]
    /\ Cardinality(Changed(preq)) < MaxChanges
    /\ preq' = [preq EXCEPT ![f] = v]
    /\ UNCHANGED <<pop, pparts, qvars, cvars, ivars, avars, hvars>>

\* the operation builds the parts of its request
BuildRequest ==
    /\ pparts = <<>>
    /\ pparts' = RequestParts(pop, preq)
    /\ UNCHANGED <<pop, preq, qvars, cvars, ivars, avars, hvars>>

\* ------------------------------------------------------------------------
\* Initialization of the client (lines 12-46) and the first lines of the
\* operations (lines 258-260 and their likes): calls of the operations made
\* at any moments, before, while and after the initializer runs
\* ------------------------------------------------------------------------

Calls == 1..NumCalls

NoPromise == [state |-> "null", error |-> "none"]
NewCall == [pc |-> "idle", err |-> "none"]

MissingKeyError == "API_KEY environment variable is not set. Please configure it in your environment."
InitFailedError == "Failed to initialize AI service. Details: ..."

\* a test that never finds the promise
HasPromiseNever(p) == FALSE

\* if (aiAndModulePromise)
HasPromise(p) == p.state # "null"

\* an operation is called: it calls getAiClientAndEnums(), which starts the
\* initializer unless the promise is there, and awaits the promise
getAiClientAndEnums(c) ==
    /\ call[c].pc = "idle"
    /\ call' = [call EXCEPT ![c].pc = "awaiting"]
    /\ aiAndModulePromise' =
          IF HasPromise(aiAndModulePromise) THEN aiAndModulePromise
          ELSE [state |-> "pending", error |-> "none"]
    /\ UNCHANGED <<apiKey, keyReads, clients, qvars, cvars, ivars, pvars, hvars>>

\* the initializer, the import done: it tests the credential and constructs
\* the client, which works or throws
InitializerRuns(constructed) ==
    /\ aiAndModulePromise.state = "pending"
    /\ keyReads < NumCalls
    /\ keyReads' = keyReads + 1
    /\ IF ~apiKey
       THEN /\ aiAndModulePromise' = [state |-> "rejected", error |-> MissingKeyError]
            /\ UNCHANGED clients
       ELSE /\ clients' = clients + 1
            /\ aiAndModulePromise' =
                  IF constructed THEN [state |-> "resolved", error |-> "none"]
                  ELSE [state |-> "rejected", error |-> InitFailedError]
    /\ UNCHANGED <<apiKey, call, qvars, cvars, ivars, pvars, hvars>>

\* the await of the operation ends: with the client it goes on to build and
\* enqueue its request, with a rejection its catch block wraps the error
OperationResumes(c) ==
    /\ call[c].pc = "awaiting"
    /\ aiAndModulePromise.state \in {"resolved", "rejected"}
    /\ call' = [call EXCEPT ![c] =
                  IF aiAndModulePromise.state = "resolved"
                  THEN [pc |-> "enqueued", err |-> "none"]
                  ELSE [pc |-> "failed", err |-> aiAndModulePromise.error]]
    /\ UNCHANGED <<aiAndModulePromise, apiKey, keyReads, clients, qvars, cvars, ivars, pvars, hvars>>

\* the credential appears in the environment after the process started
KeyConfigured ==
    /\ ~apiKey
    /\ apiKey' = TRUE
    /\ UNCHANGED <<aiAndModulePromise, call, keyReads, clients, qvars, cvars, ivars, pvars, hvars>>

\* The queue with its jobs; no message is being classified on its own and
\* no response interpreted.
Init ==
    /\ requestQueue = <<>>
    /\ isProcessing = FALSE
    /\ job = [j \in Jobs |-> NewJob]
    /\ timers = <<>>
    /\ sinceSettle = Cooldown
    /\ order = <<>>
    /\ settled = <<>>
    /\ cmsg = <<>>
    /\ cres = "pending"
    /\ iop = "describeImage"
    /\ iresp = NoCandidate
    /\ iresult = Pending
    /\ pop = "describeImage"
    /\ preq = DefaultRequest
    /\ pparts = <<>>
    /\ aiAndModulePromise = NoPromise
    /\ apiKey = TRUE
    /\ call = [c \in Calls |-> NewCall]
    /\ keyReads = 0
    /\ clients = 0
    /\ history = <<>>
    /\ historyIndex = -1
    /\ isLoading = FALSE
    /\ isSwappingFace = FALSE
    /\ isReperspectiving = FALSE
    /\ error = FALSE
    /\ isInpaintingEditorOpen = FALSE
    /\ awaited = <<>>
    /\ made = 0

Spec == Init /\ [][Next]_vars

\* every attempt of a started unit of work comes to an end, continuations
\* run, time passes and due timers fire; nobody is obliged to enqueue
Fairness ==
    /\ WF_vars(\E j \in Jobs :
                  \/ \E resp \in DeliveredResponses : AttemptSucceeds(j, resp)
                  \/ \E e \in Failures, jitter \in Jitters : AttemptFails(j, e, jitter))
    /\ WF_vars(\E j \in Jobs : BackoffDone(j))
    /\ WF_vars(\E j \in Jobs : TaskSettles(j))
    /\ WF_vars(\E j \in Jobs : OperationInterprets(j))
    /\ WF_vars(TimerFires)
    /\ WF_vars(\E d \in PartSteps \cup {NextDeadline} : Advance(d))

SpecLive == Init /\ [][Next]_vars /\ Fairness

\* The classification of any one message.
ClassifyInit ==
    /\ requestQueue = <<>>
    /\ isProcessing = FALSE
    /\ job = [j \in Jobs |-> NewJob]
    /\ timers = <<>>
    /\ sinceSettle = Cooldown
    /\ order = <<>>
    /\ settled = <<>>
    /\ cmsg \in Messages
    /\ cres = "pending"
    /\ iop = "describeImage"
    /\ iresp = NoCandidate
    /\ iresult = Pending
    /\ pop = "describeImage"
    /\ preq = DefaultRequest
    /\ pparts = <<>>
    /\ aiAndModulePromise = NoPromise
    /\ apiKey = TRUE
    /\ call = [c \in Calls |-> NewCall]
    /\ keyReads = 0
    /\ clients = 0
    /\ history = <<>>
    /\ historyIndex = -1
    /\ isLoading = FALSE
    /\ isSwappingFace = FALSE
    /\ isReperspectiving = FALSE
    /\ error = FALSE
    /\ isInpaintingEditorOpen = FALSE
    /\ awaited = <<>>
    /\ made = 0

ClassifyNext == Classify

SpecClassify == ClassifyInit /\ [][ClassifyNext]_vars

\* The interpretation of any one response by any one operation.
InterpretInit ==
    /\ requestQueue = <<>>
    /\ isProcessing = FALSE
    /\ job = [j \in Jobs |-> NewJob]
    /\ timers = <<>>
    /\ sinceSettle = Cooldown
    /\ order = <<>>
    /\ settled = <<>>
    /\ cmsg = <<>>
    /\ cres = "pending"
    /\ iop \in Ops
    /\ iresp \in Responses
    /\ iresult = Pending
    /\ pop = "describeImage"
    /\ preq = DefaultRequest
    /\ pparts = <<>>
    /\ aiAndModulePromise = NoPromise
    /\ apiKey = TRUE
    /\ call = [c \in Calls |-> NewCall]
    /\ keyReads = 0
    /\ clients = 0
    /\ history = <<>>
    /\ historyIndex = -1
    /\ isLoading = FALSE
    /\ isSwappingFace = FALSE
    /\ isReperspectiving = FALSE
    /\ error = FALSE
    /\ isInpaintingEditorOpen = FALSE
    /\ awaited = <<>>
    /\ made = 0

InterpretNext == InterpretResponse

SpecInterpret == InterpretInit /\ [][InterpretNext]_vars

\* The request of any one operation, built from arguments of which at most
\* MaxChanges differ from their first values.
PromptInit ==
    /\ requestQueue = <<>>
    /\ isProcessing = FALSE
    /\ job = [j \in Jobs |-> NewJob]
    /\ timers = <<>>
    /\ sinceSettle = Cooldown
    /\ order = <<>>
    /\ settled = <<>>
    /\ cmsg = <<>>
    /\ cres = "pending"
    /\ iop = "describeImage"
    /\ iresp = NoCandidate
    /\ iresult = Pending
    /\ pop \in Ops
    /\ preq = DefaultRequest
    /\ pparts = <<>>
    /\ aiAndModulePromise = NoPromise
    /\ apiKey = TRUE
    /\ call = [c \in Calls |-> NewCall]
    /\ keyReads = 0
    /\ clients = 0
    /\ history = <<>>
    /\ historyIndex = -1
    /\ isLoading = FALSE
    /\ isSwappingFace = FALSE
    /\ isReperspectiving = FALSE
    /\ error = FALSE
    /\ isInpaintingEditorOpen = FALSE
    /\ awaited = <<>>
    /\ made = 0

PromptNext ==
    \/ /\ Cardinality(Changed(preq)) < MaxChanges
       /\ \E f \in FieldsOf(pop) : \E v \in AltValues(f) : SetField(f, v)
    \/ BuildRequest

SpecPrompt == PromptInit /\ [][PromptNext]_vars

\* The calls of the operations and the initializer, with the credential
\* set or absent when the process starts.
ClientInit ==
    /\ requestQueue = <<>>
    /\ isProcessing = FALSE
    /\ job = [j \in Jobs |-> NewJob]
    /\ timers = <<>>
    /\ sinceSettle = Cooldown
    /\ order = <<>>
    /\ settled = <<>>
    /\ cmsg = <<>>
    /\ cres = "pending"
    /\ iop = "describeImage"
    /\ iresp = NoCandidate
    /\ iresult = Pending
    /\ pop = "describeImage"
    /\ preq = DefaultRequest
    /\ pparts = <<>>
    /\ aiAndModulePromise = NoPromise
    /\ apiKey \in BOOLEAN
    /\ call = [c \in Calls |-> NewCall]
    /\ keyReads = 0
    /\ clients = 0
    /\ history = <<>>
    /\ historyIndex = -1
    /\ isLoading = FALSE
    /\ isSwappingFace = FALSE
    /\ isReperspectiving = FALSE
    /\ error = FALSE
    /\ isInpaintingEditorOpen = FALSE
    /\ awaited = <<>>
    /\ made = 0

ClientNext ==
    \/ \E c \in Calls : getAiClientAndEnums(c)
    \/ \E constructed \in BOOLEAN : InitializerRuns(constructed)
    \/ \E c \in Calls : OperationResumes(c)
    \/ KeyConfigured

SpecClient == ClientInit /\ [][ClientNext]_vars

\* ------------------------------------------------------------------------
\* The application's output history (App, lines 1016-1054) and the handlers
\* that append to it (lines 1228-1286, 1351-1369, 1424-1450, 1479-1499).
\* An output is numbered by the order in which the operations returned.
\* ------------------------------------------------------------------------

\* updateHistory(newOutput), with h and i the history and historyIndex of
\* the render its closure belongs to
updateHistory(h, i, newOutput) ==
    LET newHistory == Append(SubSeq(h, 1, i + 1), newOutput)
    IN [history |-> newHistory, historyIndex |-> Len(newHistory) - 1]

\* currentOutput?.imageUrl
HasCurrentOutput == historyIndex >= 0 /\ historyIndex < Len(history)
canUndo == historyIndex > 0
canRedo == historyIndex < Len(history) - 1

\* OutputDisplay shows the image with its buttons: no loading indicator, no
\* error message, an output, and no editor laid over the page
OutputButtonsShown ==
    /\ ~(isLoading \/ isSwappingFace \/ isReperspectiving)
    /\ ~error
    /\ HasCurrentOutput
    /\ ~isInpaintingEditorOpen

\* the handler suspended at its await, with the render it was called in
Suspended(kind) == [kind |-> kind, history |-> history, historyIndex |-> historyIndex]

\* handleGenerate up to its await; the button is disabled while isGenerating
\* (Controls.tsx, line 206) and out of reach under the open editor
handleGenerate ==
    /\ ~isLoading
    /\ ~isInpaintingEditorOpen
    /\ Len(awaited) + made < MaxOps
    /\ isLoading' = TRUE
    /\ error' = FALSE
    /\ awaited' = Append(awaited, Suspended("generate"))
    /\ UNCHANGED <<history, historyIndex, isSwappingFace, isReperspectiving,
                   isInpaintingEditorOpen, made, qvars, cvars, ivars, pvars, avars>>

\* performFaceSwap up to its await
performFaceSwap ==
    /\ OutputButtonsShown
    /\ Len(awaited) + made < MaxOps
    /\ isSwappingFace' = TRUE
    /\ error' = FALSE
    /\ awaited' = Append(awaited, Suspended("swapFace"))
    /\ UNCHANGED <<history, historyIndex, isLoading, isReperspectiving,
                   isInpaintingEditorOpen, made, qvars, cvars, ivars, pvars, avars>>

\* handleReperspective up to its await
handleReperspective ==
    /\ OutputButtonsShown
    /\ ~isReperspectiving
    /\ Len(awaited) + made < MaxOps
    /\ isReperspectiving' = TRUE
    /\ error' = FALSE
    /\ awaited' = Append(awaited, Suspended("reperspective"))
    /\ UNCHANGED <<history, historyIndex, isLoading, isSwappingFace,
                   isInpaintingEditorOpen, made, qvars, cvars, ivars, pvars, avars>>

\* handleEditRequest: the editor opens on the current output
handleEditRequest ==
    /\ OutputButtonsShown
    /\ isInpaintingEditorOpen' = TRUE
    /\ UNCHANGED <<history, historyIndex, isLoading, isSwappingFace, isReperspectiving,
                   error, awaited, made, qvars, cvars, ivars, pvars, avars>>

\* onClose of the editor
CloseEditor ==
    /\ isInpaintingEditorOpen
    /\ isInpaintingEditorOpen' = FALSE
    /\ UNCHANGED <<history, historyIndex, isLoading, isSwappingFace, isReperspectiving,
                   error, awaited, made, qvars, cvars, ivars, pvars, avars>>

\* handleInpaint up to its await
handleInpaint ==
    /\ isInpaintingEditorOpen
    /\ Len(awaited) + made < MaxOps
    /\ isLoading' = TRUE
    /\ isInpaintingEditorOpen' = FALSE
    /\ error' = FALSE
    /\ awaited' = Append(awaited, Suspended("inpaint"))
    /\ UNCHANGED <<history, historyIndex, isSwappingFace, isReperspectiving, made,
                   qvars, cvars, ivars, pvars, avars>>

handleUndo ==
    /\ OutputButtonsShown
    /\ canUndo
    /\ historyIndex' = historyIndex - 1
    /\ UNCHANGED <<history, isLoading, isSwappingFace, isReperspectiving, error,
                   isInpaintingEditorOpen, awaited, made, qvars, cvars, ivars, pvars, avars>>

handleRedo ==
    /\ OutputButtonsShown
    /\ canRedo
    /\ historyIndex' = historyIndex + 1
    /\ UNCHANGED <<history, isLoading, isSwappingFace, isReperspectiving, error,
                   isInpaintingEditorOpen, awaited, made, qvars, cvars, ivars, pvars, avars>>

\* handleCreateFromOutput: the output becomes the subject, the history is
\* emptied
handleCreateFromOutput ==
    /\ OutputButtonsShown
    /\ history' = <<>>
    /\ historyIndex' = -1
    /\ UNCHANGED <<isLoading, isSwappingFace, isReperspectiving, error,
                   isInpaintingEditorOpen, awaited, made, qvars, cvars, ivars, pvars, avars>>

\* the finally block of the handler of an operation of this kind
FlagsAfter(kind) ==
    /\ isLoading' = IF kind \in {"generate", "inpaint"} THEN FALSE ELSE isLoading
    /\ isSwappingFace' = IF kind = "swapFace" THEN FALSE ELSE isSwappingFace
    /\ isReperspectiving' = IF kind = "reperspective" THEN FALSE ELSE isReperspectiving

\* the awaited operation returns an output: updateHistory(result), finally.
\* The operations pass through the serial queue and return in the order
\* they were called in.
OperationReturns ==
    /\ awaited # <<>>
    /\ LET h == Head(awaited)
           u == updateHistory(h.history, h.historyIndex, made + 1)
       IN /\ history' = u.history
          /\ historyIndex' = u.historyIndex
          /\ FlagsAfter(h.kind)
    /\ made' = made + 1
    /\ awaited' = Tail(awaited)
    /\ UNCHANGED <<error, isInpaintingEditorOpen, qvars, cvars, ivars, pvars, avars>>

\* the awaited operation throws: setError(...), finally
OperationThrows ==
    /\ awaited # <<>>
    /\ error' = TRUE
    /\ FlagsAfter(Head(awaited).kind)
    /\ awaited' = Tail(awaited)
    /\ UNCHANGED <<history, historyIndex, isInpaintingEditorOpen, made,
                   qvars, cvars, ivars, pvars, avars>>

\* The application on its own: nothing generated yet.
HistoryInit ==
    /\ requestQueue = <<>>
    /\ isProcessing = FALSE
    /\ job = [j \in Jobs |-> NewJob]
    /\ timers = <<>>
    /\ sinceSettle = Cooldown
    /\ order = <<>>
    /\ settled = <<>>
    /\ cmsg = <<>>
    /\ cres = "pending"
    /\ iop = "describeImage"
    /\ iresp = NoCandidate
    /\ iresult = Pending
    /\ pop = "describeImage"
    /\ preq = DefaultRequest
    /\ pparts = <<>>
    /\ aiAndModulePromise = NoPromise
    /\ apiKey = TRUE
    /\ call = [c \in Calls |-> NewCall]
    /\ keyReads = 0
    /\ clients = 0
    /\ history = <<>>
    /\ historyIndex = -1
    /\ isLoading = FALSE
    /\ isSwappingFace = FALSE
    /\ isReperspectiving = FALSE
    /\ error = FALSE
    /\ isInpaintingEditorOpen = FALSE
    /\ awaited = <<>>
    /\ made = 0

HistoryNext ==
    \/ handleGenerate
    \/ performFaceSwap
    \/ handleReperspective
    \/ handleEditRequest
    \/ CloseEditor
    \/ handleInpaint
    \/ handleUndo
    \/ handleRedo
    \/ handleCreateFromOutput
    \/ OperationReturns
    \/ OperationThrows

SpecHistory == HistoryInit /\ [][HistoryNext]_vars

\* ------------------------------------------------------------------------
\* Properties of the queue and of withRetry
\* ------------------------------------------------------------------------

InFlightJobs == {j \in Jobs : InFlight(j)}

\* C1: at most one enqueued unit of work is in flight (its attempts, its
\* backoff sleeps and its pending continuation included), whenever the
\* enqueue calls arrive.
C1_AtMostOneInFlight == Cardinality(InFlightJobs) <= 1

\* a job sleeps in backoff while another waits and a cool-down timer of an
\* earlier settlement is still pending
C1_Witness ==
    \E j, k \in Jobs :
        /\ job[j].st = "sleeping"
        /\ job[k].st = "queued"
        /\ timers # <<>>

\* C2: a job enqueued earlier has settled before a job enqueued later
\* starts, and the enqueue promises settle in submission order.
C2_FifoNoOverlap ==
    /\ \A a, b \in 1..Len(order) :
          (a < b /\ Started(order[b])) => job[order[a]].st = "settled"
    /\ settled = SubSeq(order, 1, Len(settled))

\* the third job runs after the first two settled, the second of which was
\* enqueued while the first was running
C2_Witness ==
    /\ Len(settled) >= 2
    /\ Len(order) >= 3
    /\ InFlight(order[3])

\* C3: no unit of work starts before the cool-down has elapsed since the
\* last settlement (gap is the time since the last settlement at the start
\* of the job, capped at the cool-down).
C3_CooldownBeforeNextStart ==
    \A j \in Jobs : InFlight(j) => job[j].gap >= Cooldown

Failed(j) == job[j].lastError # NoError

\* C5: a failure that is not classified as rate limit ends withRetry at
\* once with that same error: no sleep follows it and no further call.
C5_NonRateLimitRethrown ==
    \A j \in Jobs :
        (InFlight(j) /\ Failed(j) /\ ~IsRateLimitError(job[j].lastError)) =>
            /\ job[j].st = "returned"
            /\ job[j].out = "error"
            /\ job[j].err = job[j].lastError
            /\ job[j].calls = job[j].attempt + 1
            /\ job[j].sleeps = job[j].attempt

\* a failure that is no rate limit, on a later attempt of a job
C5_Witness ==
    \E j \in Jobs :
        /\ job[j].st = "returned"
        /\ job[j].attempt >= 1
        /\ Failed(j) /\ ~IsRateLimitError(job[j].lastError)
        /\ job[j].err = job[j].lastError

\* C6: when the last failure is a rate limit and withRetry fails, the unit
\* of work was invoked exactly MaxRetries times and the error is the
\* "temporarily unavailable" one; no call and no sleep follows.
C6_ExhaustedAfterMaxAttempts ==
    \A j \in Jobs :
        /\ InFlight(j) => job[j].calls <= MaxRetries /\ job[j].sleeps <= MaxRetries - 1
        /\ (job[j].st = "returned" /\ job[j].out = "error"
              /\ IsRateLimitError(job[j].lastError)) =>
              /\ job[j].calls = MaxRetries
              /\ job[j].sleeps = MaxRetries - 1
              /\ job[j].err = Unavailable

C6_Witness ==
    \E j \in Jobs :
        /\ job[j].st = "returned"
        /\ job[j].err = Unavailable
        /\ job[j].calls = MaxRetries

\* the message embeds a body with error.code 429
EmbedsCode429(msg) ==
    \E i, k \in 1..Len(msg) :
        /\ i < k
        /\ msg[i] = "error:{"
        /\ msg[k] = "code:429"
        /\ \A m \in (i+1)..(k-1) : msg[m] \notin {"}", "error:{"}

\* the message carries 429 or RESOURCE_EXHAUSTED
CarriesMarker(e) ==
    /\ e.isError
    /\ \/ \E i \in 1..Len(e.message) : e.message[i] \in {"429", "code:429"}
       \/ \E i \in 1..Len(e.message) : e.message[i] \in {"RESOURCE_EXHAUSTED", "status:RE"}
       \/ EmbedsCode429(e.message)

\* C7: a failure whose message carries 429 or RESOURCE_EXHAUSTED, as text
\* or in an embedded body, is never propagated while attempts remain: the
\* job sleeps and calls again.
C7_MarkerIsRetried ==
    \A j \in Jobs :
        (job[j].st = "returned" /\ job[j].out = "error" /\ CarriesMarker(job[j].lastError)) =>
            /\ job[j].attempt = MaxRetries - 1
            /\ job[j].err = Unavailable

\* the unit of work is called again after a failure that carries the marker
\* only as text, in a body that does not parse
C7_Witness ==
    \E j \in Jobs :
        /\ job[j].st = "calling"
        /\ job[j].attempt >= 1
        /\ CarriesMarker(job[j].lastError)
        /\ ~StructuredRateLimit(job[j].lastError.message)
        /\ JsonMatch(job[j].lastError.message) # <<>>

Retrying(j) ==
    \/ job[j].st = "sleeping"
    \/ job[j].st = "calling" /\ job[j].attempt >= 1

\* C8 as stated: only a failure that carries 429 or RESOURCE_EXHAUSTED is
\* retried.
C8_OnlyMarkerRetried ==
    \A j \in Jobs : Retrying(j) => CarriesMarker(job[j].lastError)

\* C8 amended: only an Error whose message carries 429, RESOURCE_EXHAUSTED
\* or the text "rate limit" is retried.
C8_OnlyRateLimitTextRetried ==
    \A j \in Jobs :
        Retrying(j) =>
            \/ CarriesMarker(job[j].lastError)
            \/ job[j].lastError.isError /\ Includes(job[j].lastError.message, "rate limit")

\* a job sleeps after a failure whose message says "rate limit" and nothing else
C8_Witness ==
    \E j \in Jobs :
        /\ job[j].st = "sleeping"
        /\ job[j].lastError = ErrorOf(<<"rate limit">>)

\* ------------------------------------------------------------------------
\* Properties of the classification
\* ------------------------------------------------------------------------

HasBrace(msg) == \E i \in 1..Len(msg) : msg[i] \in {"{", "}", "error:{"}

\* how the message presents itself to the classifier
Form(msg) ==
    IF JsonMatch(msg) # <<>> /\ JsonParse(JsonMatch(msg)).ok THEN "parsable body"
    ELSE IF HasBrace(msg) THEN "unparsable body"
    ELSE "plain text"

\* C9: a message that carries 429 or RESOURCE_EXHAUSTED is classified as
\* rate limit in each of its forms: in a body that parses, in a
\* brace-delimited body that does not parse, and as plain text.
C9_SameClassificationInEveryForm ==
    (cres # "pending" /\ CarriesMarker(ErrorOf(cmsg))) =>
        cres = "rate limit"

\* the marker sits in a brace-delimited body that does not parse, so only
\* the substring fallback sees it
C9_Witness ==
    /\ cres = "rate limit"
    /\ Form(cmsg) = "unparsable body"
    /\ EmbedsCode429(cmsg)
    /\ ~StructuredRateLimit(cmsg)

\* ------------------------------------------------------------------------
\* Properties of the response interpretation
\* ------------------------------------------------------------------------

SafetyFinish(resp) == resp.hasCandidate /\ resp.finishReason \in {"SAFETY", "IMAGE_SAFETY"}

\* C10: whatever the operation, a response whose first candidate finished
\* with SAFETY or IMAGE_SAFETY makes it throw a safety-blocked error; it
\* never returns.
C10_SafetyFinishThrowsSafetyBlocked ==
    (iresult # Pending /\ SafetyFinish(iresp)) =>
        /\ iresult.kind = "threw"
        /\ iresult.error.type = "SafetyBlocked"

\* C11: whatever the operation, a response without a first candidate makes
\* it throw the empty-response error; nothing is returned from it.
C11_NoCandidateThrowsEmptyResponse ==
    (iresult # Pending /\ ~iresp.hasCandidate) =>
        /\ iresult.kind = "threw"
        /\ iresult.error.type = "EmptyResponse"

\* the operations that read the first candidate of the response
CandidateOps == Ops \ {"analyzeArtReference"}

\* a finish reason that is present, not accepted and not a safety block
OtherFinish(resp) ==
    /\ resp.hasCandidate
    /\ resp.finishReason \notin {"absent", "STOP", "MAX_TOKENS", "SAFETY", "IMAGE_SAFETY"}

\* C12: an operation that reads the candidate throws the unexpected-finish
\* error, carrying the raw finish reason, when that reason is present and is
\* neither STOP, MAX_TOKENS, SAFETY nor IMAGE_SAFETY; it returns nothing.
C12_OtherFinishThrowsUnexpectedFinish ==
    (iresult # Pending /\ iop \in CandidateOps /\ OtherFinish(iresp)) =>
        /\ iresult.kind = "threw"
        /\ iresult.error.type = "UnexpectedFinish"
        /\ iresult.error.detail = <<iresp.finishReason>>

\* the candidate's finish reason lets the operation go on to the content
Accepted(resp) == resp.hasCandidate /\ resp.finishReason \in {"absent", "STOP", "MAX_TOKENS"}

ImageBlocks(parts) == {i \in 1..Len(parts) : parts[i].kind = "image"}

LastImageBlock(parts) ==
    parts[CHOOSE i \in ImageBlocks(parts) : \A k \in ImageBlocks(parts) : k <= i]

\* the text blocks of the content, one after the other in block order
RECURSIVE TextInBlockOrder(_)
TextInBlockOrder(parts) ==
    IF parts = <<>> THEN <<>>
    ELSE TextInBlockOrder(SubSeq(parts, 1, Len(parts) - 1)) \o
            (IF parts[Len(parts)].kind = "text" THEN parts[Len(parts)].text ELSE <<>>)

\* C13: generateStudioPhoto, given an accepted candidate with an inline
\* image, returns an output whose text is every text block concatenated in
\* block order (null when there is no text at all) and whose imageUrl is the
\* data URI of the last inline image.
C13_GenerateConcatenatesTextTakesLastImage ==
    (iresult # Pending /\ iop = "generateStudioPhoto" /\ Accepted(iresp)
        /\ ImageBlocks(iresp.parts) # {}) =>
        /\ iresult.kind = "returned"
        /\ iresult.value.text.v = TextInBlockOrder(iresp.parts)
        /\ iresult.value.text.tag = "null" <=> TextInBlockOrder(iresp.parts) = <<>>
        /\ iresult.value.imageUrl =
              Str(<<"data:", LastImageBlock(iresp.parts).mimeType, ";base64,",
                    LastImageBlock(iresp.parts).data>>)

\* one text block "done" and one inline image, finish reason STOP
C13_Witness ==
    /\ iop = "generateStudioPhoto"
    /\ iresp.finishReason = "STOP"
    /\ iresp.parts = <<TextPart(<<"done">>), ImagePart("image/png", "AAAA")>>
    /\ iresult = Returns([NoValue EXCEPT
                            !.imageUrl = Str(<<"data:", "image/png", ";base64,", "AAAA">>),
                            !.text = Str(<<"done">>)])

NonEmptyTextBlocks(parts) ==
    {i \in 1..Len(parts) : parts[i].kind = "text" /\ parts[i].text # <<>>}

\* the last non-empty text block alone, nothing when there is none
LastNonEmptyText(parts) ==
    IF NonEmptyTextBlocks(parts) = {} THEN <<>>
    ELSE parts[CHOOSE i \in NonEmptyTextBlocks(parts) :
                  \A k \in NonEmptyTextBlocks(parts) : k <= i].text

\* C14 as stated: inpaintImage, swapFace and manipulateScene each return, as
\* text, the last non-empty text block of the accepted candidate alone.
C14_ThreeOperationsOverwriteText ==
    (iresult.kind = "returned" /\ iop \in {"inpaintImage", "swapFace", "manipulateScene"}) =>
        iresult.value.text.v = LastNonEmptyText(iresp.parts)

\* C14, amended: inpaintImage and manipulateScene return the last non-empty
\* text block of the accepted candidate alone, each text block replacing
\* the one before; swapFace returns the text blocks concatenated in block
\* order, as generateStudioPhoto does.
C14_InpaintAndSceneOverwriteSwapFaceConcatenates ==
    /\ (iresult.kind = "returned" /\ iop \in {"inpaintImage", "manipulateScene"}) =>
            iresult.value.text.v = LastNonEmptyText(iresp.parts)
    /\ (iresult.kind = "returned" /\ iop = "swapFace") =>
            iresult.value.text.v = TextInBlockOrder(iresp.parts)

\* inpaintImage returned from a candidate with two different non-empty text
\* blocks, and its text is the second one alone
C14_Witness ==
    /\ iop = "inpaintImage"
    /\ iresult.kind = "returned"
    /\ iresp.parts = <<TextPart(<<"done">>), TextPart(<<"more">>), ImagePart("image/png", "AAAA")>>
    /\ iresult.value.text = Str(<<"more">>)

ImageOps == {"generateStudioPhoto", "inpaintImage", "swapFace", "manipulateScene"}

\* C15: an image-producing operation whose accepted candidate holds no
\* inline image throws the missing-image error, so every output such an
\* operation returns has an imageUrl that is not null.
C15_NoImageThrowsMissingImage ==
    /\ (iresult # Pending /\ iop \in ImageOps /\ Accepted(iresp)
            /\ ImageBlocks(iresp.parts) = {}) =>
            /\ iresult.kind = "threw"
            /\ iresult.error.type = "MissingImage"
    /\ (iresult.kind = "returned" /\ iop \in ImageOps) =>
            iresult.value.imageUrl.tag = "string"

\* the accepted candidate held text but no image, and the operation threw
\* the missing-image error
C15_Witness ==
    /\ iop \in ImageOps
    /\ Accepted(iresp)
    /\ NonEmptyTextBlocks(iresp.parts) # {}
    /\ ImageBlocks(iresp.parts) = {}
    /\ iresult.kind = "threw"
    /\ iresult.error.type = "MissingImage"

\* a result the caller can use: an image for the image-producing operations,
\* a description for describeImage, an analysis with a known lighting style
\* for analyzeArtReference
ValidResult(op, value) ==
    CASE op \in ImageOps -> value.imageUrl.tag = "string"
      [] op = "describeImage" -> value.text.tag = "string"
      [] op = "analyzeArtReference" ->
            value.text.tag = "string" /\ value.lightingStyle \in LightingStyles

\* C16: an operation that has dealt with its response either returned a
\* valid result or threw an error wrapped in its own descriptive message;
\* it never returns a missing or partly valid result.
C16_ValidResultOrWrappedError ==
    iresult # Pending =>
        \/ iresult.kind = "returned" /\ ValidResult(iop, iresult.value)
        \/ /\ iresult.kind = "threw"
           /\ iresult.error.wrapper = iop
           /\ iresult.error.type # "none"

\* ------------------------------------------------------------------------
\* Properties of the request payloads
\* ------------------------------------------------------------------------

\* generateStudioPhoto built its request from the sections, not from the
\* flyer or thumbnail template
BuiltFromSections ==
    /\ pop = "generateStudioPhoto"
    /\ pparts # <<>>
    /\ ~Selects(preq.stylePrompt, "Flyer Design")
    /\ ~Selects(preq.stylePrompt, "Thumbnail Design")

\* the instruction text is the first part sent
InstructionText == pparts[1].text

Says(text, phrase) == \E i \in 1..Len(text) : text[i] = phrase

PhotorealisticMatchMandate ==
    "A value of 100 requires a perfect, photorealistic match to the original"
ReinterpretationLanguage ==
    "A lower value allows for more artistic interpretation of their features to better match the art style,"
PreserveIdentityDirective ==
    "- **CRITICAL:** You MUST perfectly preserve their facial features, structure, and identity."

\* the influence directive states value n
StatesInfluence(text, n) ==
    \E i \in 1..(Len(text) - 2) :
        /\ text[i] = "- **CRITICAL - SUBJECT INFLUENCE"
        /\ text[i + 1] = ToString(n)
        /\ text[i + 2] = "/100:**"

\* C17 as stated: with an art reference, a prompt built with subject
\* influence 100 holds the photorealistic-match mandate and not the
\* reinterpretation language, one built with 40 holds the reinterpretation
\* language and not the mandate, and no prompt holds both.
C17_InfluencePhrasesExclusive ==
    (BuiltFromSections /\ preq.artReferenceImage # NoImage) =>
        /\ preq.subjectInfluence = 100 =>
              /\ Says(InstructionText, PhotorealisticMatchMandate)
              /\ ~Says(InstructionText, ReinterpretationLanguage)
        /\ preq.subjectInfluence = 40 =>
              /\ Says(InstructionText, ReinterpretationLanguage)
              /\ ~Says(InstructionText, PhotorealisticMatchMandate)
        /\ ~(Says(InstructionText, PhotorealisticMatchMandate)
                /\ Says(InstructionText, ReinterpretationLanguage))

\* C17, amended: with an art reference, the prompt holds one influence
\* directive that states the subject influence given and, whatever that
\* value, both the photorealistic-match sentence and the reinterpretation
\* sentence; that directive and the preserve-identity directive never occur
\* in one prompt, the latter being emitted exactly when there is no art
\* reference.
C17_InfluenceDirectiveStatesValueAndBothPolicies ==
    BuiltFromSections =>
        /\ preq.artReferenceImage # NoImage =>
              /\ StatesInfluence(InstructionText, preq.subjectInfluence)
              /\ Says(InstructionText, PhotorealisticMatchMandate)
              /\ Says(InstructionText, ReinterpretationLanguage)
              /\ ~Says(InstructionText, PreserveIdentityDirective)
        /\ preq.artReferenceImage = NoImage =>
              /\ Says(InstructionText, PreserveIdentityDirective)
              /\ ~Says(InstructionText, "- **CRITICAL - SUBJECT INFLUENCE")
              /\ ~Says(InstructionText, PhotorealisticMatchMandate)
              /\ ~Says(InstructionText, ReinterpretationLanguage)

\* a prompt built with an art reference and subject influence 40 states
\* 40/100 and still holds the photorealistic-match sentence
C17_Witness ==
    /\ BuiltFromSections
    /\ preq.artReferenceImage # NoImage
    /\ preq.subjectInfluence = 40
    /\ StatesInfluence(InstructionText, 40)
    /\ Says(InstructionText, PhotorealisticMatchMandate)

\* the first phrase of each section, in the order the spec lists the
\* sections: master instruction, subject & identity, art style, composition
\* & scene, final stylization, camera & lens, final output requirement
SectionMarkers ==
    <<"You are an expert AI photo editor and virtual photographer.",
      "**1. SUBJECT & IDENTITY (PARAMOUNT PRIORITY)**",
      "**2. ART STYLE APPLICATION**",
      "**3. COMPOSITION & SCENE**",
      "**4. FINAL STYLIZATION**",
      "**5. CAMERA & LENS SETTINGS**",
      "**FINAL OUTPUT REQUIREMENTS**">>

\* the sections (by their place in SectionMarkers) that the text holds
SectionsOf(text) == {s \in 1..Len(SectionMarkers) : Says(text, SectionMarkers[s])}

\* C18: a generateStudioPhoto request carrying only the subject image, every
\* other argument at its first value, yields a prompt holding only the
\* master instruction, the subject & identity section and the final output
\* requirement, and exactly one image block, the subject.
C18_DefaultsYieldThreeSectionsOneImage ==
    (BuiltFromSections /\ Changed(preq) = {}) =>
        /\ SectionsOf(InstructionText) = {1, 2, 7}
        /\ ImageBlocks(pparts) = {3}
        /\ pparts[3] = ImagePart(preq.sourceImage.mimeType, preq.sourceImage.base64)

\* C19: in the parts an operation sends, every image block comes right
\* after a text block (the one naming its role): no image block is first
\* and none follows another image block.
C19_EveryImagePrecededByText ==
    pparts # <<>> =>
        \A i \in ImageBlocks(pparts) : i > 1 /\ pparts[i - 1].kind = "text"

\* where the text holds the first phrase of section s
MarkerPlaces(text, s) == {i \in 1..Len(text) : text[i] = SectionMarkers[s]}

\* C20: a generateStudioPhoto request that selects neither the flyer nor the
\* thumbnail template sends its sections once each and in the order master
\* instruction, subject & identity, art style, composition & scene, final
\* stylization, camera & lens, final output requirement; the first, second
\* and last of these are always there; and every image block comes after
\* the one part that holds the instruction text.
C20_SectionsInFixedOrderImagesAfterText ==
    BuiltFromSections =>
        /\ {1, 2, 7} \subseteq SectionsOf(InstructionText)
        /\ \A s \in SectionsOf(InstructionText) :
              Cardinality(MarkerPlaces(InstructionText, s)) = 1
        /\ \A s, t \in SectionsOf(InstructionText) :
              s < t => \A i \in MarkerPlaces(InstructionText, s) :
                          \A k \in MarkerPlaces(InstructionText, t) : i < k
        /\ MarkerPlaces(InstructionText, 1) = {1}
        /\ pparts[1].kind = "text"
        /\ \A i \in 2..Len(pparts) :
              pparts[i].kind = "text" => SectionsOf(pparts[i].text) = {}
        /\ \A i \in ImageBlocks(pparts) : i > 1

\* a prompt holding all seven sections, sent with more than one image
C20_Witness ==
    /\ BuiltFromSections
    /\ SectionsOf(InstructionText) = 1..7
    /\ Cardinality(ImageBlocks(pparts)) >= 2

UploadDirective == "- Use the [Background] image as the new background."
DescribeDirective == "- Create a new background based on this description:"
RandomDirective ==
    "- Generate a random, photorealistic, professional studio background that complements the subject(s)."

\* how many times the text holds the phrase
Occurrences(text, phrase) == Cardinality({i \in 1..Len(text) : text[i] = phrase})

\* a part sent is the label or the image of the background
SendsBackgroundImage ==
    \E i \in 1..Len(pparts) :
        \/ pparts[i] = TextPart(<<"This is the [Background] image:">>)
        \/ pparts[i].kind = "image" /\ pparts[i].data = "background"

\* C21: the background directive follows the mode flag and a prompt holds at
\* most one of them: an upload directive only in mode 'upload', a describe
\* directive only in mode 'describe', and in mode 'random' the request for
\* a random studio background, without the backgroundPrompt text and
\* without a [Background] image block, whatever backgroundPrompt and
\* backgroundImage hold.
C21_BackgroundFollowsModeFlag ==
    BuiltFromSections =>
        /\ Occurrences(InstructionText, "**Background:**") <= 1
        /\ Occurrences(InstructionText, UploadDirective)
              + Occurrences(InstructionText, DescribeDirective)
              + Occurrences(InstructionText, RandomDirective) <= 1
        /\ Says(InstructionText, UploadDirective) => preq.backgroundMode = "upload"
        /\ Says(InstructionText, DescribeDirective) => preq.backgroundMode = "describe"
        /\ Says(InstructionText, RandomDirective) <=> preq.backgroundMode = "random"
        /\ preq.backgroundMode = "random" =>
              /\ ~Says(InstructionText, "a beach at sunset")
              /\ ~SendsBackgroundImage

\* mode 'random' while both a background text and a background image are
\* held: the prompt asks for a random studio background
C21_Witness ==
    /\ BuiltFromSections
    /\ preq.backgroundMode = "random"
    /\ preq.backgroundPrompt = "a beach at sunset"
    /\ preq.backgroundImage # NoImage
    /\ Says(InstructionText, RandomDirective)

\* the triggers of the final stylization section
LightingTrigger == preq.lightingStyle # "None" /\ ~preq.useArtReferenceLighting
SkinTrigger == preq.skinTexture # "None" /\ ~preq.useArtReferenceSkin
HighlightPairing == preq.highlightStyle # "None" /\ preq.highlightIntensity # "None"
StyleTrigger == preq.stylePrompt # <<>>

SaysSkinDirective(text) ==
    \/ Says(text, "- **SKIN RETOUCHING:** Apply a professional 'dodge and burn' retouching technique")
    \/ Says(text, "- **SKIN RETOUCHING:** Apply a professional 'frequency separation' retouching technique.")
    \/ Says(text, "- **SKIN TEXTURE:** Render the subject's skin with a")

\* the section is there exactly when a trigger is, and each directive is
\* there exactly when its trigger is; highlights stands for the highlight
\* trigger
StylizationFollowsTriggers(highlights) ==
    BuiltFromSections =>
        /\ 5 \in SectionsOf(InstructionText) <=>
              (LightingTrigger \/ SkinTrigger \/ highlights \/ StyleTrigger)
        /\ Says(InstructionText, "- **CRITICAL LIGHTING:** Apply a professional") <=> LightingTrigger
        /\ SaysSkinDirective(InstructionText) <=> SkinTrigger
        /\ Says(InstructionText, "- **SKIN HIGHLIGHTS:** Apply") <=> highlights
        /\ Says(InstructionText, "- **ADDITIONAL EFFECTS:** Render the final image incorporating this style:")
              <=> StyleTrigger

\* C22 as stated: the final stylization section is emitted exactly when
\* there is a lighting style not delegated to the art reference, a skin
\* texture not delegated to it, a highlight pairing with style and intensity
\* both set, or a free-text style; each of these brings its directive.
C22_StylizationIffAnyTrigger == StylizationFollowsTriggers(HighlightPairing)

\* C22, amended: as stated, except that the highlight pairing counts only
\* when the skin is not delegated to the art reference: the skin delegation
\* covers the highlights too.
C22_StylizationIffAnyUndelegatedTrigger ==
    StylizationFollowsTriggers(HighlightPairing /\ ~preq.useArtReferenceSkin)

\* a highlight pairing is set while the skin is delegated to the art
\* reference, and the prompt holds no final stylization section
C22_Witness ==
    /\ BuiltFromSections
    /\ HighlightPairing
    /\ preq.useArtReferenceSkin
    /\ 5 \notin SectionsOf(InstructionText)

FlyerOpening == "You are an expert graphic designer creating a professional promotional flyer."
ThumbnailOpening == "You are a professional YouTube thumbnail designer."

\* the phrase is followed at once by the copy
Embeds(text, phrase, copy) ==
    \E i \in 1..(Len(text) - 1) : text[i] = phrase /\ text[i + 1] = copy

\* the request is one instruction text and then the subject image alone
TemplateThenSubject ==
    /\ Len(pparts) = 2
    /\ pparts[1].kind = "text"
    /\ SectionsOf(pparts[1].text) = {}
    /\ pparts[2].kind = "image"
    /\ pparts[2].mimeType = preq.sourceImage.mimeType
    /\ pparts[2].data = preq.sourceImage.base64

\* C23: when the style string holds the flyer marker, or else the thumbnail
\* marker, generateStudioPhoto sends exactly the template instruction with
\* the flyer (thumbnail) copy embedded and then the subject image: none of
\* the seven sections, no other image; with both markers the flyer template
\* alone is used.
C23_TemplateReplacesSections ==
    (pop = "generateStudioPhoto" /\ pparts # <<>>) =>
        /\ Selects(preq.stylePrompt, "Flyer Design") =>
              /\ TemplateThenSubject
              /\ pparts[1].text[1] = FlyerOpening
              /\ Embeds(pparts[1].text,
                        "- **Text Content:** The flyer MUST include the following text.",
                        preq.flyerText)
              /\ ~Says(pparts[1].text, ThumbnailOpening)
        /\ (Selects(preq.stylePrompt, "Thumbnail Design")
                /\ ~Selects(preq.stylePrompt, "Flyer Design")) =>
              /\ TemplateThenSubject
              /\ pparts[1].text[1] = ThumbnailOpening
              /\ Embeds(pparts[1].text,
                        "- **Text Content:** The thumbnail MUST include this text, making it bold, readable, and exciting:",
                        preq.thumbnailText)
              /\ ~Says(pparts[1].text, FlyerOpening)

\* both markers selected and an art reference held: the flyer template and
\* the subject image are all that is sent
C23_Witness ==
    /\ pop = "generateStudioPhoto"
    /\ Selects(preq.stylePrompt, "Flyer Design")
    /\ Selects(preq.stylePrompt, "Thumbnail Design")
    /\ preq.artReferenceImage # NoImage
    /\ Len(pparts) = 2
    /\ pparts[1].text[1] = FlyerOpening

\* ------------------------------------------------------------------------
\* Properties of the initialization
\* ------------------------------------------------------------------------

\* C24: however many operations are called and whenever, the initializer
\* tests the credential once and constructs the client at most once, and
\* every call shares that outcome: a call goes on to enqueue only with the
\* client, and once the initialization failed every call that got its
\* answer failed with that one error, also when the credential has appeared
\* since.
C24_InitializedAtMostOnce ==
    /\ keyReads <= 1
    /\ clients <= 1
    /\ \A c \in Calls :
          /\ call[c].pc = "enqueued" =>
                aiAndModulePromise.state = "resolved" /\ clients = 1
          /\ call[c].pc = "failed" =>
                /\ aiAndModulePromise.state = "rejected"
                /\ call[c].err = aiAndModulePromise.error
    /\ aiAndModulePromise.state = "rejected" =>
          \A c \in Calls : call[c].pc # "enqueued"

\* the credential was absent when the initializer ran and has appeared
\* since; every call failed with the missing-credential error and the
\* client was never constructed
C24_Witness ==
    /\ apiKey
    /\ keyReads = 1
    /\ clients = 0
    /\ \A c \in Calls : call[c] = [pc |-> "failed", err |-> MissingKeyError]

\* ------------------------------------------------------------------------
\* Further properties of the queue and of withRetry
\* ------------------------------------------------------------------------

\* the base delays of the default policy, by index of the failed attempt
BaseDelay(k) ==
    CASE k = 0 -> 3000
      [] k = 1 -> 6000
      [] k = 2 -> 12000
      [] k = 3 -> 24000
      [] OTHER -> -1

\* C25: the sleep after failed attempt k (counted from 0) lasts at least
\* 3000, 6000, 12000, 24000 ms for k = 0, 1, 2, 3 and less than 1000 ms
\* more; there is no sleep after a later attempt, and a job sleeps at most
\* MaxRetries - 1 times.
C25_BackoffDelaysDoubleWithJitter ==
    \A j \in Jobs :
        /\ job[j].sleeps <= MaxRetries - 1
        /\ job[j].st = "sleeping" =>
              /\ job[j].attempt \in 0..3
              /\ job[j].sleeps = job[j].attempt + 1
              /\ job[j].delay >= BaseDelay(job[j].attempt)
              /\ job[j].delay < BaseDelay(job[j].attempt) + 1000

\* a job in its fourth sleep, of 24999 ms
C25_Witness ==
    \E j \in Jobs :
        /\ job[j].st = "sleeping"
        /\ job[j].attempt = 3
        /\ job[j].sleeps = 4
        /\ job[j].delay = 24999

\* ------------------------------------------------------------------------
\* Further properties of the request payloads
\* ------------------------------------------------------------------------

\* where the text holds a colour-temperature entry
TemperatureEntries(text) == {i \in 1..Len(text) : text[i] = "Color Temperature:"}

\* the qualitative description written at entry i
DescriptionAt(text, i) == IF i + 2 <= Len(text) THEN text[i + 2] ELSE ""

\* C26: a prompt built from the sections holds exactly one colour
\* temperature entry; its description is warm, tungsten-like exactly when
\* the temperature is below 4000 K, cool, overcast-like exactly when it is
\* above 6500 K, and neutral daylight otherwise, 4000 and 6500 included.
C26_OneTemperatureEntryThreeWay ==
    BuiltFromSections =>
        /\ Cardinality(TemperatureEntries(InstructionText)) = 1
        /\ \A i \in TemperatureEntries(InstructionText) :
              /\ DescriptionAt(InstructionText, i) = "(warm, tungsten-like light)"
                    <=> preq.lightingTemperature < 4000
              /\ DescriptionAt(InstructionText, i) = "(cool, overcast-like light)"
                    <=> preq.lightingTemperature > 6500
              /\ DescriptionAt(InstructionText, i) = "(neutral daylight light)"
                    <=> preq.lightingTemperature \in 4000..6500

\* a prompt built for 6500 K, described as neutral daylight
C26_Witness ==
    /\ BuiltFromSections
    /\ preq.lightingTemperature = 6500
    /\ \E i \in TemperatureEntries(InstructionText) :
          /\ InstructionText[i + 1] = "6500K"
          /\ InstructionText[i + 2] = "(neutral daylight light)"

\* no job is enqueued and unsettled
NothingPending == \A j \in Jobs : job[j].st \in {"new", "settled"}

\* C27: with every attempt ending and timers firing, every job that was
\* enqueued starts and its enqueue promise settles, once and with the
\* outcome its own unit of work had; whenever no enqueued job is unsettled
\* the queue is idle, the flag down and the pending list empty.  (A settled
\* job stays settled and an enqueued one is never new again, so "some job
\* unsettled leads to none unsettled" says that each of them settles; a job
\* settles only from the end of its own unit of work, hence after it
\* started.)
C27_EveryJobStartsAndSettlesOnce ==
    /\ (~NothingPending) ~> NothingPending
    /\ [][\A j \in Jobs :
            (job[j].st # "settled" /\ job'[j].st = "settled") =>
                job[j].st = "returned" /\ job'[j].out = job[j].out]_vars
    /\ [][\A j \in Jobs : job[j].st = "settled" => job'[j].st = "settled"]_vars
    /\ [](\A i, k \in 1..Len(settled) : settled[i] = settled[k] => i = k)
    /\ [](\A j \in Jobs : job[j].st = "settled" <=> \E i \in 1..Len(settled) : settled[i] = j)
    /\ [](NothingPending => ~isProcessing /\ requestQueue = <<>>)

\* every job has settled, one of them with an error after another had been
\* enqueued behind it, and the queue is idle
C27_Witness ==
    /\ Len(settled) = NumJobs
    /\ NothingPending
    /\ \E j \in Jobs : job[j].out = "error"
    /\ \E j \in Jobs : job[j].out = "value"
    /\ ~isProcessing
    /\ requestQueue = <<>>

\* ------------------------------------------------------------------------
\* C28
\* ------------------------------------------------------------------------

\* C28: withRetry returns the result of the first attempt that succeeds and
\* never invokes the unit of work after a success: the unit of work is
\* invoked between 1 and maxAttempts times whatever the attempts' outcomes
\* are, an invocation beyond the first follows only a backoff sleep, a
\* resolved attempt ends withRetry at once with the value, and a success on
\* attempt i comes after i-1 invocations that each failed and were slept on.
C28_ReturnsFirstSuccessWithinMaxAttempts ==
    /\ [](\A j \in Jobs :
            /\ job[j].calls \in 0..MaxRetries
            /\ InFlight(j) => job[j].calls >= 1
            /\ (job[j].st = "returned" /\ job[j].out = "value") =>
                  /\ job[j].calls = job[j].attempt + 1
                  /\ job[j].sleeps = job[j].calls - 1
                  /\ job[j].err = NoError)
    /\ [][\A j \in Jobs :
            /\ job'[j].calls > job[j].calls =>
                  \/ job[j].st \in {"new", "queued"} /\ job'[j].calls = 1
                  \/ job[j].st = "sleeping" /\ job'[j].calls = job[j].calls + 1
            /\ (job[j].st = "calling" /\ job'[j].sleeps = job[j].sleeps
                                      /\ job'[j].out # "error") =>
                  /\ job'[j].st \in {"calling", "returned"}
                  /\ job'[j].calls = job[j].calls
                  /\ job'[j].st = "returned" => job'[j].out = "value"
            /\ job[j].st = "returned" =>
                  /\ job'[j].st \in {"returned", "settled"}
                  /\ job'[j].out = job[j].out
                  /\ job'[j].calls \in {job[j].calls, 0}]_vars

\* the last permitted attempt succeeds after MaxRetries - 1 rate-limited ones
C28_Witness ==
    \E j \in Jobs :
        /\ job[j].st = "returned"
        /\ job[j].out = "value"
        /\ job[j].calls = MaxRetries
        /\ job[j].sleeps = MaxRetries - 1
        /\ IsRateLimitError(job[j].lastError)

\* ------------------------------------------------------------------------
\* C29
\* ------------------------------------------------------------------------

Rejected(j) == job[j].outcome = "rejected"

\* the step in which the operation of j resumes after await enqueue(...)
Interprets(j) == job[j].outcome = "none" /\ job'[j].outcome # "none"

\* C29: a response is interpreted only after its queue job settled with
\* success.  The interpretation changes nothing of the queue: the list, the
\* flag and the pending wake-ups are as the settlement left them, whether
\* the response is accepted or rejected, and the wake-up of the cool-down is
\* already set.  A response is rejected exactly when the operation's
\* interpretation throws; a job whose response was rejected makes no
\* further call and is never started again, the flag is never up on its
\* account, and what is pending at that time is started all the same.
C29_RejectionAfterSettlementLeavesQueueAlone ==
    /\ [](\A j \in Jobs :
            /\ job[j].outcome # "none" => job[j].st = "settled"
            /\ job[j].outcome \in {"accepted", "rejected"} => job[j].out = "value"
            /\ (Rejected(j) /\ isProcessing) => \E k \in Jobs \ {j} : InFlight(k))
    /\ [][\A j \in Jobs :
            /\ Interprets(j) =>
                  /\ Resuming(j)
                  /\ job'[j].st = "settled"
                  /\ job'[j].calls = job[j].calls
                  /\ Rejected(j)' <=>
                        (job[j].out = "value"
                            /\ Interpret(OpOf(j), job[j].resp).kind = "threw")
                  /\ ~isProcessing
                  /\ timers # <<>> /\ timers[Len(timers)] = Cooldown
                  /\ UNCHANGED <<requestQueue, isProcessing, timers, sinceSettle,
                                 order, settled>>
                  /\ \A k \in Jobs \ {j} :
                        job'[k] = job[k] \/ job'[k] = [job[k] EXCEPT !.outcome = "ended"]
            /\ job[j].st = "settled" =>
                  /\ job'[j].st = "settled"
                  /\ job'[j].calls = job[j].calls
                  /\ job'[j].out = job[j].out]_vars
    /\ ((\E j \in Jobs : Rejected(j)) /\ requestQueue # <<>>) ~> (requestQueue = <<>>)

\* a response was rejected and a job that was enqueued after it is calling
\* the service
C29_Witness ==
    \E a, b \in 1..Len(order) :
        /\ a < b
        /\ Rejected(order[a])
        /\ job[order[b]].st = "calling"
        /\ isProcessing

\* ------------------------------------------------------------------------
\* C30
\* ------------------------------------------------------------------------

\* C30: no successful output is lost from the history.  Whenever an
\* operation returns an output, the output becomes the last and current
\* entry of the history, and every entry at or before the position that was
\* current at that moment is kept in its place; also when another operation
\* is awaited at the same time.
C30_ReturnedOutputAppendedNothingCurrentLost ==
    [][made' # made =>
          /\ Len(history') >= historyIndex + 2
          /\ \A i \in 1..(historyIndex + 1) : history'[i] = history[i]
          /\ history'[Len(history')] = made'
          /\ historyIndex' = Len(history') - 1]_vars

====
